---------------------------- MODULE Spec2Model ----------------------------
(***************************************************************************)
(* A model of the NSR scraper (fisapool/literate-umbrella): the crawl      *)
(* state machine of src/src/main.js (form-POST crawler) and of the         *)
(* direct-GET crawler, the listing / profile parsers of src/src/parser.js, *)
(* the normalizers of src/src/utils.js and the pagination discovery        *)
(* functions isValidNextPageUrl / findNextPageUrl.                         *)
(*                                                                         *)
(* Conventions.  A JavaScript string is a sequence of one-character        *)
(* strings (<<"1","2">> is "12"), so that parseInt, includes, replace and  *)
(* the regular expressions are computed, not assumed.  null / undefined is *)
(* the one-element sequence null.                                          *)
(* A URL is a record [origin, path, query, hash] whose query is the ordered *)
(* list of <<name, value>> pairs: two URLs are the same string iff the     *)
(* records are equal.                                                      *)
(***************************************************************************)
EXTENDS Integers, Sequences, FiniteSets, Bags, TLC

VARIABLES
    pgDoc,      \* findNextPageUrl: the results document ($)
    pgUrl,      \* findNextPageUrl: currentUrl
    pgPage,     \* findNextPageUrl: currentPage
    pgResult,   \* findNextPageUrl: the value returned
    pgPhase,    \* "idle" | "input" | "done"
    variant,    \* the program run: "formPost" (main.js), "stateFiltered" or "fullCrawl" (part_003)
    maxRequestsPerCrawl,  \* the input of that name; 0 is no limit
    site,       \* what the source site serves: "any" document, the "e2e" or the "plain" scenario
    queue,      \* the request queue: every task ever accepted
    running,    \* the listing handlers suspended at an await
    handled,    \* the keys of the tasks whose handler has returned
    dataset,    \* the default dataset: the bag of pushed records
    started,    \* requests begun, counted against maxRequestsPerCrawl
    latest,     \* the task and document of the handler begun last
    errors,     \* the log.error lines of the crawler: the task and the message
    fn,         \* the function called on its own: its name
    arg,        \* the argument it is called with
    out,        \* the value it returned
    called      \* whether it has returned

pgVars == <<pgDoc, pgUrl, pgPage, pgResult, pgPhase>>
crawlVars == <<variant, maxRequestsPerCrawl, site, queue, running, handled, dataset, started, latest, errors>>
fnVars == <<fn, arg, out, called>>
vars == <<pgVars, crawlVars, fnVars>>

-----------------------------------------------------------------------------
(* Strings *)

null == <<"null">>

\* A string literal as the sequence of its characters.
RECURSIVE Str(_)
Str(s) == IF Len(s) = 0 THEN <<>> ELSE <<SubSeq(s, 1, 1)>> \o Str(SubSeq(s, 2, Len(s)))

Truthy(s) == s # null /\ s # <<>>

Digits == {"0", "1", "2", "3", "4", "5", "6", "7", "8", "9"}

DigitVal(c) ==
    CASE c = "0" -> 0 [] c = "1" -> 1 [] c = "2" -> 2 [] c = "3" -> 3
      [] c = "4" -> 4 [] c = "5" -> 5 [] c = "6" -> 6 [] c = "7" -> 7
      [] c = "8" -> 8 [] c = "9" -> 9
      [] c \in {"a", "A"} -> 10 [] c \in {"b", "B"} -> 11
      [] c \in {"c", "C"} -> 12 [] c \in {"d", "D"} -> 13
      [] c \in {"e", "E"} -> 14 [] c \in {"f", "F"} -> 15
      [] OTHER -> 99

IsWs(c) == c \in {" ", "\n", "\t"}

\* String.prototype.includes
Includes(s, sub) ==
    \E i \in 1..(Len(s) - Len(sub) + 1) : SubSeq(s, i, i + Len(sub) - 1) = sub

RECURSIVE SkipWs(_, _)
SkipWs(s, i) == IF i <= Len(s) /\ IsWs(s[i]) THEN SkipWs(s, i + 1) ELSE i

RECURSIVE ReadDigits(_, _, _, _)
ReadDigits(s, i, radix, acc) ==
    IF i <= Len(s) /\ DigitVal(s[i]) < radix
    THEN ReadDigits(s, i + 1, radix, acc * radix + DigitVal(s[i]))
    ELSE acc

\* A JavaScript number that may be NaN.
NaN == [nan |-> TRUE, val |-> 0]
Num(n) == [nan |-> FALSE, val |-> n]

\* parseInt(s) with no radix argument: leading white space, an optional sign,
\* an optional 0x prefix, then the longest run of digits; NaN when there is none.
ParseInt(s) ==
    LET i == SkipWs(s, 1)
        neg == i <= Len(s) /\ s[i] = "-"
        j == IF i <= Len(s) /\ s[i] \in {"+", "-"} THEN i + 1 ELSE i
        hex == j + 1 <= Len(s) /\ s[j] = "0" /\ s[j + 1] \in {"x", "X"}
        k == IF hex THEN j + 2 ELSE j
        radix == IF hex THEN 16 ELSE 10
    IN  IF k <= Len(s) /\ DigitVal(s[k]) < radix
        THEN Num((IF neg THEN -1 ELSE 1) * ReadDigits(s, k, radix, 0))
        ELSE NaN

\* Comparisons with NaN are false.
NumGt(a, n) == ~a.nan /\ a.val > n
NumGe(a, n) == ~a.nan /\ a.val >= n
NumLe(a, n) == ~a.nan /\ a.val <= n
NumLt(a, n) == ~a.nan /\ a.val < n

RECURSIVE NatToStr(_)
NatToStr(n) ==
    LET d == <<"0", "1", "2", "3", "4", "5", "6", "7", "8", "9">>
    IN  IF n < 10 THEN <<d[n + 1]>> ELSE NatToStr(n \div 10) \o <<d[(n % 10) + 1]>>

\* text.trim()
RECURSIVE TrimLeft(_)
TrimLeft(s) == IF s # <<>> /\ IsWs(Head(s)) THEN TrimLeft(Tail(s)) ELSE s
RECURSIVE TrimRight(_)
TrimRight(s) ==
    IF s # <<>> /\ IsWs(s[Len(s)]) THEN TrimRight(SubSeq(s, 1, Len(s) - 1)) ELSE s
Trim(s) == TrimRight(TrimLeft(s))

\* text.replace(/\s+/g, ' ')
RECURSIVE CollapseWs(_)
CollapseWs(s) ==
    IF s = <<>> THEN <<>>
    ELSE IF IsWs(Head(s))
         THEN <<" ">> \o CollapseWs(TrimLeft(s))
         ELSE <<Head(s)>> \o CollapseWs(Tail(s))

cleanText(text) == IF ~Truthy(text) THEN <<>> ELSE Trim(CollapseWs(text))

-----------------------------------------------------------------------------
(* URLs: new URL(href, base), searchParams.get / set *)

NSR_BASE_URL == "https://nsr.org.my"

UrlAt(origin, path, query, hash) ==
    [origin |-> origin, path |-> path, query |-> query, hash |-> hash]
Url(path, query, hash) == UrlAt(NSR_BASE_URL, path, query, hash)
NoUrl == UrlAt("", "", <<>>, "null")

\* An href attribute.  present = FALSE is a missing (or empty) attribute; js
\* says the text contains "javascript:"; bad makes the URL constructor throw;
\* an empty path is a relative reference ("?page=2", "#top").
Href(path, query, hash) ==
    [present |-> TRUE, js |-> FALSE, bad |-> FALSE,
     path |-> path, query |-> query, hash |-> hash]
NoHref == [Href("", <<>>, "") EXCEPT !.present = FALSE]
JsHref == [Href("", <<>>, "") EXCEPT !.js = TRUE]
BadHref == [Href("", <<>>, "") EXCEPT !.bad = TRUE]

\* new URL(href, currentUrl).href
Resolve(href, cur) ==
    UrlAt(cur.origin,
        IF href.path = "" THEN cur.path ELSE href.path,
        IF href.path = "" /\ href.query = <<>> THEN cur.query ELSE href.query,
        href.hash)

\* url.searchParams.get(name): the first value, or null
SearchGet(url, name) ==
    LET idx == {i \in 1..Len(url.query) : url.query[i][1] = name}
    IN  IF idx = {} THEN null
        ELSE url.query[CHOOSE i \in idx : \A j \in idx : i <= j][2]

\* url.searchParams.set(name, value): the first pair takes the value, the
\* other pairs of that name are removed; appended when there is none.
SearchSet(url, name, value) ==
    LET idx == {i \in 1..Len(url.query) : url.query[i][1] = name}
        first == CHOOSE i \in idx : \A j \in idx : i <= j
        Keep(i) == i \notin idx \/ i = first
        RECURSIVE Build(_)
        Build(i) ==
            IF i > Len(url.query) THEN <<>>
            ELSE (IF ~Keep(i) THEN <<>>
                  ELSE IF i = first THEN <<<<name, value>>>>
                  ELSE <<url.query[i]>>) \o Build(i + 1)
    IN  [url EXCEPT !.query = IF idx = {} THEN Append(url.query, <<name, value>>)
                              ELSE Build(1)]


-----------------------------------------------------------------------------
(* Results documents.  A document is [rows, els, noRecords]: the body rows  *)
(* of table.searchlist, the anchors / buttons / spans of the page in        *)
(* document order, and whether the body text holds a "no records" phrase.   *)
(* An element carries its tag, text, own class, the class of its parent     *)
(* (box), whether it is its parent's last child, and its attributes.        *)

El(tag, text, cls, box, last, href) ==
    [tag |-> tag, text |-> text, cls |-> cls, box |-> box, last |-> last,
     href |-> href, disabledAttr |-> FALSE, dataNext |-> FALSE, dataPage |-> FALSE]

sNext == Str("Next")
sPrev == Str("Prev")
\* U+203A, SINGLE RIGHT-POINTING ANGLE QUOTATION MARK, as one character
sRaquo == <<"U+203A">>
\* the three characters U+00E2 U+20AC U+00BA that parser.js:276 holds in its place
sMojibake == <<"U+00E2", "U+20AC", "U+00BA">>
sGt == Str(">")
sGtGt == Str(">>")
sDisabled == Str("disabled")
sActive == Str("active")
sCurrent == Str("current")
sPagination == Str("pagination")
sPaging == Str("paging")
sPage == Str("page")
sPager == Str("pager")
sNextLc == Str("next")
sNextBox == Str("next-link")

\* The first element of els (document order) satisfying P, as an index; 0 if none.
FirstIndex(els, P(_)) ==
    LET idx == {i \in 1..Len(els) : P(els[i])}
    IN  IF idx = {} THEN 0 ELSE CHOOSE i \in idx : \A j \in idx : i <= j

RECURSIVE ConcatTexts(_, _, _)
ConcatTexts(els, P(_), i) ==
    IF i > Len(els) THEN <<>>
    ELSE (IF P(els[i]) THEN els[i].text ELSE <<>>) \o ConcatTexts(els, P, i + 1)

SetMax(S) == CHOOSE x \in S : \A y \in S : y <= x

\* $('.pagination, .paging, [class*="page"]').find(...): the descendants of a
\* pagination container.
InPagination(e) ==
    e.box = sPagination \/ e.box = sPaging \/ Includes(e.box, sPage)

parsePaginationInfo(doc) ==
    LET IsActive(e) == InPagination(e)
                       /\ (e.cls = sActive \/ e.cls = sCurrent \/ Includes(e.cls, sActive))
        pageNum == ParseInt(cleanText(ConcatTexts(doc.els, IsActive, 1)))
        IsPageEl(e) == InPagination(e) /\ (e.tag \in {"a", "button"} \/ e.dataPage)
        pageNumbers == {ParseInt(cleanText(doc.els[i].text)).val :
                           i \in {j \in 1..Len(doc.els) :
                                    IsPageEl(doc.els[j])
                                    /\ ~ParseInt(cleanText(doc.els[j].text)).nan}}
        IsNext(e) == InPagination(e)
                     /\ ((e.tag = "a" /\ (Includes(e.text, sNext)
                                          \/ Includes(e.text, sMojibake)
                                          \/ Includes(e.text, sGtGt)))
                         \/ e.dataNext)
        next == {i \in 1..Len(doc.els) : IsNext(doc.els[i])}
    IN  [currentPage |-> IF FirstIndex(doc.els, IsActive) # 0 /\ ~pageNum.nan
                         THEN pageNum.val ELSE 1,
         totalPages |-> IF pageNumbers # {} THEN SetMax(pageNumbers) ELSE 1,
         hasNext |-> next # {} /\ \A i \in next : doc.els[i].cls # sDisabled]

-----------------------------------------------------------------------------
(* Pagination discovery: isValidNextPageUrl and findNextPageUrl *)

UnfilteredThreshold == 1000

\* Mutant (C1): the guard without the unfiltered-listing threshold.
isValidNextPageUrl_NoThreshold(url, currentUrl, currentPage) ==
    LET pageParam == SearchGet(url, "page")
        pageNum == ParseInt(pageParam)
        currentStateFilter == SearchGet(currentUrl, "state_ForSearch")
        nextStateFilter == SearchGet(url, "state_ForSearch")
    IN  /\ ~(Truthy(pageParam) /\ NumLe(pageNum, currentPage))
        /\ url # currentUrl
        /\ ~(Truthy(currentStateFilter) /\ nextStateFilter # currentStateFilter)

\* Mutant (C2): the guard without the state filter comparison.
isValidNextPageUrl_NoFilter(url, currentUrl, currentPage) ==
    LET pageParam == SearchGet(url, "page")
        pageNum == ParseInt(pageParam)
    IN  /\ ~(Truthy(pageParam)
             /\ (NumGe(pageNum, UnfilteredThreshold) \/ NumLe(pageNum, currentPage)))
        /\ url # currentUrl

isValidNextPageUrl(url, currentUrl, currentPage) ==
    LET pageParam == SearchGet(url, "page")
        pageNum == ParseInt(pageParam)
        currentStateFilter == SearchGet(currentUrl, "state_ForSearch")
        nextStateFilter == SearchGet(url, "state_ForSearch")
    IN  /\ ~(Truthy(pageParam)
             /\ (NumGe(pageNum, UnfilteredThreshold) \/ NumLe(pageNum, currentPage)))
        /\ url # currentUrl
        /\ ~(Truthy(currentStateFilter) /\ nextStateFilter # currentStateFilter)

\* The six selectors of strategy 1, in the order they are tried.
NextSelector(k, e) ==
    e.tag = "a"
    /\ CASE k = 1 -> Includes(e.text, sNext)
         [] k = 2 -> Includes(e.text, sRaquo)
         [] k = 3 -> Includes(e.text, sGtGt)
         [] k = 4 -> Includes(e.text, sGt)
         [] k = 5 -> Includes(e.box, sNextLc)
         [] OTHER -> e.box = sPagination /\ e.last

NumNextSelectors == 6

\* Strategy 1, selector k: the href of the first matching element that is not
\* disabled, if it resolves to a valid next page.
LabelLinkCandidate(doc, currentUrl, currentPage, k) ==
    LET Sel(e) == NextSelector(k, e) /\ e.cls # sDisabled /\ ~e.disabledAttr
        i == FirstIndex(doc.els, Sel)
        href == doc.els[i].href
        absoluteUrl == Resolve(href, currentUrl)
        nextPageParam == SearchGet(absoluteUrl, "page")
    IN  IF /\ i # 0
           /\ href.present /\ ~href.js /\ href.hash = ""
           /\ ~href.bad
           /\ isValidNextPageUrl(absoluteUrl, currentUrl, currentPage)
           /\ (~Truthy(nextPageParam) \/ NumGt(ParseInt(nextPageParam), currentPage))
        THEN absoluteUrl
        ELSE NoUrl

RECURSIVE LabelLinkStrategy(_, _, _, _)
LabelLinkStrategy(doc, currentUrl, currentPage, k) ==
    IF k > NumNextSelectors THEN NoUrl
    ELSE IF LabelLinkCandidate(doc, currentUrl, currentPage, k) # NoUrl
         THEN LabelLinkCandidate(doc, currentUrl, currentPage, k)
         ELSE LabelLinkStrategy(doc, currentUrl, currentPage, k + 1)

\* Strategy 2: the page links (a[href*="page="], a[href*="list1pview"]) that
\* pass the guard, with the page number of each; NaN marks a link not pushed.
PageLinkNumber(e, currentUrl, currentPage) ==
    LET absoluteUrl == Resolve(e.href, currentUrl)
        pageParam == SearchGet(absoluteUrl, "page")
        n == IF Truthy(pageParam) THEN ParseInt(pageParam) ELSE ParseInt(Trim(e.text))
    IN  IF /\ e.tag = "a" /\ e.href.present
           /\ ((\E i \in 1..Len(e.href.query) : e.href.query[i][1] = "page")
               \/ e.href.path = "list1pview.asp")
           /\ ~e.href.js /\ ~e.href.bad
           /\ isValidNextPageUrl(absoluteUrl, currentUrl, currentPage)
           /\ NumGt(n, currentPage) /\ NumLt(n, UnfilteredThreshold)
        THEN n ELSE NaN

\* Mutant (C28): the link of the largest page number is taken.
NumberedLinkStrategy_Largest(doc, currentUrl, currentPage) ==
    LET N(i) == PageLinkNumber(doc.els[i], currentUrl, currentPage)
        pageLinks == {i \in 1..Len(doc.els) : ~N(i).nan}
        best == CHOOSE i \in pageLinks :
                    \A j \in pageLinks :
                        N(i).val > N(j).val \/ (N(i).val = N(j).val /\ i <= j)
    IN  IF pageLinks = {} THEN NoUrl ELSE Resolve(doc.els[best].href, currentUrl)

NumberedLinkStrategy(doc, currentUrl, currentPage) ==
    LET N(i) == PageLinkNumber(doc.els[i], currentUrl, currentPage)
        pageLinks == {i \in 1..Len(doc.els) : ~N(i).nan}
        best == CHOOSE i \in pageLinks :
                    \A j \in pageLinks :
                        N(i).val < N(j).val \/ (N(i).val = N(j).val /\ i <= j)
    IN  IF pageLinks = {} THEN NoUrl ELSE Resolve(doc.els[best].href, currentUrl)

\* Mutant (C29): the URL is constructed without asking the pagination summary.
ConstructedUrlStrategy_Unasked(doc, currentUrl, currentPage) ==
    LET nextPage == currentPage + 1
        nextUrl == SearchSet(currentUrl, "page", NatToStr(nextPage))
    IN  IF nextPage >= UnfilteredThreshold THEN NoUrl
        ELSE IF isValidNextPageUrl(nextUrl, currentUrl, currentPage) THEN nextUrl
        ELSE NoUrl

\* Strategies 3 and 4: the pagination summary, then the constructed URL.
ConstructedUrlStrategy(doc, currentUrl, currentPage) ==
    LET paginationInfo == parsePaginationInfo(doc)
        hasNextPage == paginationInfo.hasNext
                       /\ paginationInfo.currentPage < paginationInfo.totalPages
        nextPage == currentPage + 1
        nextUrl == SearchSet(currentUrl, "page", NatToStr(nextPage))
    IN  IF ~hasNextPage THEN NoUrl
        ELSE IF nextPage >= UnfilteredThreshold THEN NoUrl
        ELSE IF isValidNextPageUrl(nextUrl, currentUrl, currentPage) THEN nextUrl
        ELSE NoUrl

findNextPageUrl(doc, currentUrl, currentPage) ==
    IF LabelLinkStrategy(doc, currentUrl, currentPage, 1) # NoUrl
    THEN LabelLinkStrategy(doc, currentUrl, currentPage, 1)
    ELSE IF NumberedLinkStrategy(doc, currentUrl, currentPage) # NoUrl
    THEN NumberedLinkStrategy(doc, currentUrl, currentPage)
    ELSE ConstructedUrlStrategy(doc, currentUrl, currentPage)

-----------------------------------------------------------------------------
(* Inputs of the pagination discovery check *)

MaxAnchors == 2

FilterParam == "state_ForSearch"
ListPath == "list1pview.asp"

\* a query: the filter (when f is not null), the page (when p is not null),
\* then an unrelated parameter (when x is TRUE)
Query(f, p, x) ==
    (IF f = null THEN <<>> ELSE <<<<FilterParam, f>>>>)
    \o (IF p = null THEN <<>> ELSE <<<<"page", p>>>>)
    \o (IF x THEN <<<<"x", <<"1">>>>>> ELSE <<>>)

ListHref(f, p, x) == Href(ListPath, Query(f, p, x), "")

s4 == Str("4")
s5 == Str("5")
s1006 == Str("1006")

\* the hrefs a "Next" label may carry
LabelHrefs ==
    { ListHref(s4, <<"2">>, FALSE),            \* the next page, filter kept
      ListHref(s5, <<"3">>, FALSE),            \* filter changed
      ListHref(s4, s1006, FALSE),              \* the unfiltered list
      ListHref(s4, <<"1", "0", "0", "0">>, FALSE),
      ListHref(s4, <<"1">>, FALSE),            \* backwards
      ListHref(s4, <<"a", "b", "c">>, FALSE),  \* parseInt gives NaN
      ListHref(s4, null, TRUE) }               \* no page parameter

AnchorPool ==
    { El("a", sNext, <<>>, <<>>, FALSE, h) : h \in LabelHrefs }
    \cup { El("a", <<"3">>, <<>>, <<>>, FALSE, ListHref(s4, <<"3">>, FALSE)),
           El("a", <<"3">>, <<>>, <<>>, FALSE, ListHref(s4, null, TRUE)),
           El("a", <<" ", "2">>, <<>>, <<>>, FALSE, ListHref(null, <<"2">>, FALSE)),
           El("a", <<"3">>, <<>>, <<>>, FALSE, Href("results.asp", Query(s4, null, FALSE), "")),
           El("a", s1006, <<>>, <<>>, FALSE, ListHref(s4, null, TRUE)),
           El("a", s1006, sPagination, <<>>, TRUE, ListHref(null, s1006, FALSE)),
           El("a", sRaquo, <<>>, sNextBox, FALSE, ListHref(s4, <<"2">>, FALSE)),
           El("a", sGtGt, <<>>, sPagination, TRUE, JsHref),
           El("a", sGt, sDisabled, <<>>, FALSE, ListHref(s4, <<"2">>, FALSE)),
           El("a", sNext, <<>>, sPagination, FALSE, NoHref),
           El("a", sNext, sDisabled, sPagination, FALSE, NoHref),
           El("a", sPrev, <<>>, sPager, TRUE, BadHref),
           El("button", <<"5">>, <<>>, sPagination, FALSE, NoHref),
           El("span", <<"2">>, sActive, sPaging, FALSE, NoHref) }

PaginationDocs ==
    { [rows |-> <<>>, els |-> e, noRecords |-> FALSE] :
        e \in UNION { [1..n -> AnchorPool] : n \in 0..MaxAnchors } }

CurrentUrls ==
    { Url(ListPath, Query(s4, null, FALSE), ""),
      Url(ListPath, Query(s4, <<"2">>, FALSE), ""),
      Url(ListPath, Query(null, null, FALSE), ""),
      Url(ListPath, Query(<<>>, <<"2">>, FALSE), "") }

CurrentPages == {1, 2, 999}

IdleFunctions ==
    /\ fn = "none"
    /\ arg = <<>>
    /\ out = <<>>
    /\ called = FALSE

InitPagination ==
    /\ pgDoc \in PaginationDocs
    /\ pgUrl \in CurrentUrls
    /\ pgPage \in CurrentPages
    /\ pgResult = NoUrl
    /\ pgPhase = "input"
    /\ variant = "none"
    /\ maxRequestsPerCrawl = 0
    /\ site = "none"
    /\ queue = {}
    /\ running = {}
    /\ handled = {}
    /\ dataset = EmptyBag
    /\ started = 0
    /\ latest = <<>>
    /\ errors = {}
    /\ IdleFunctions

CallFindNextPageUrl ==
    /\ pgPhase = "input"
    /\ pgResult' = findNextPageUrl(pgDoc, pgUrl, pgPage)
    /\ pgPhase' = "done"
    /\ UNCHANGED <<pgDoc, pgUrl, pgPage>>
    /\ UNCHANGED <<crawlVars, fnVars>>

NextPagination == CallFindNextPageUrl

SpecPagination == InitPagination /\ [][NextPagination]_vars

\* The page number of a URL: the number parseInt reads in its page parameter.
HasPageNumber(url) == Truthy(SearchGet(url, "page"))
PageNumber(url) == ParseInt(SearchGet(url, "page"))

\* C1: a URL returned by findNextPageUrl that carries a page number carries one
\* that is greater than currentPage and below the unfiltered-listing threshold;
\* a document whose only link is a label link to page 1006 gives no candidate.
C1_PageNumberInRange ==
    pgPhase = "done" =>
        /\ (pgResult # NoUrl /\ HasPageNumber(pgResult)) =>
              /\ NumGt(PageNumber(pgResult), pgPage)
              /\ NumLt(PageNumber(pgResult), UnfilteredThreshold)
        /\ (/\ Len(pgDoc.els) = 1
            /\ pgDoc.els[1].href.present
            /\ SearchGet(pgDoc.els[1].href, "page") = s1006
            /\ ParseInt(pgDoc.els[1].text).nan) => pgResult = NoUrl

\* C1 witness: on page 1, the only link is a Next link to page 1006 and nothing
\* is returned.
C1_Witness ==
    /\ pgPhase = "done" /\ pgPage = 1
    /\ Len(pgDoc.els) = 1
    /\ pgDoc.els[1].text = sNext
    /\ SearchGet(pgDoc.els[1].href, "page") = s1006
    /\ pgResult = NoUrl

\* C2: when the current URL carries a filter value, the URL returned carries
\* the same value of state_ForSearch.
C2_FilterPreserved ==
    (pgPhase = "done" /\ pgResult # NoUrl /\ Truthy(SearchGet(pgUrl, FilterParam)))
        => SearchGet(pgResult, FilterParam) = SearchGet(pgUrl, FilterParam)

\* C2 witness: a link with a valid page number that drops or changes the
\* filter is passed over, and the link that keeps the filter is returned.
C2_Witness ==
    /\ pgPhase = "done" /\ pgPage = 1
    /\ SearchGet(pgUrl, FilterParam) = s4
    /\ Len(pgDoc.els) = 2
    /\ pgDoc.els[1].href.present
    /\ SearchGet(pgDoc.els[1].href, FilterParam) # s4
    /\ NumGt(PageNumber(pgDoc.els[1].href), 1)
    /\ NumLt(PageNumber(pgDoc.els[1].href), UnfilteredThreshold)
    /\ pgResult = Resolve(pgDoc.els[2].href, pgUrl)
    /\ SearchGet(pgResult, FilterParam) = s4

\* the result of the label-link strategy on the input
LabelResult == LabelLinkStrategy(pgDoc, pgUrl, pgPage, 1)

\* an anchor with an href that resolves to a URL
IsAnchor(e) == e.tag = "a" /\ e.href.present /\ ~e.href.js /\ ~e.href.bad

\* an anchor the selector a[href*="page="], a[href*="list1pview"] takes
IsPageLink(e) ==
    /\ IsAnchor(e)
    /\ \/ \E i \in 1..Len(e.href.query) : e.href.query[i][1] = "page"
       \/ e.href.path = ListPath

\* the page number of an anchor: that of the page parameter of its URL, or
\* of its visible text when the URL has none (or an empty one)
AnchorNumber(e) ==
    IF Truthy(SearchGet(Resolve(e.href, pgUrl), "page"))
    THEN ParseInt(SearchGet(Resolve(e.href, pgUrl), "page"))
    ELSE ParseInt(Trim(e.text))

\* n is a page after the current one and below the threshold
InRange(n) == NumGt(n, pgPage) /\ NumLt(n, UnfilteredThreshold)

PassesGuard(e) == isValidNextPageUrl(Resolve(e.href, pgUrl), pgUrl, pgPage)

\* the anchors the claim counts, by position
NumberedAnchors ==
    {i \in 1..Len(pgDoc.els) :
        IsAnchor(pgDoc.els[i]) /\ InRange(AnchorNumber(pgDoc.els[i])) /\ PassesGuard(pgDoc.els[i])}

\* the page links of the selector among them
NumberedPageLinks ==
    {i \in 1..Len(pgDoc.els) :
        IsPageLink(pgDoc.els[i]) /\ InRange(AnchorNumber(pgDoc.els[i]))
            /\ PassesGuard(pgDoc.els[i])}

\* the result is the URL of an anchor of smallest page number among links
ResultIsSmallest(links) ==
    \E i \in links :
        /\ \A j \in links :
               AnchorNumber(pgDoc.els[i]).val <= AnchorNumber(pgDoc.els[j]).val
        /\ pgResult = Resolve(pgDoc.els[i].href, pgUrl)

\* the label link decides when it gives a candidate; otherwise the smallest
\* of links; without links the summary and the constructed URL
LabelThenSmallest(label, links) ==
    /\ label # NoUrl => pgResult = label
    /\ (label = NoUrl /\ links # {}) => ResultIsSmallest(links)
    /\ (label = NoUrl /\ links = {}) =>
           pgResult = ConstructedUrlStrategy(pgDoc, pgUrl, pgPage)

\* C28 as stated: the label link decides when it gives a candidate; otherwise
\* the result is the URL of an anchor with the smallest page number among the
\* anchors whose page number (page parameter, else visible text) is above
\* currentPage, below 1000 and passes the guard; without such an anchor the
\* summary and the constructed URL decide.
C28_SmallestNumberedAnchor ==
    pgPhase = "done" => LabelThenSmallest(LabelResult, NumberedAnchors)

\* C28 amended: the same, the anchors counted being those whose href holds
\* "page=" or "list1pview".
C28_SmallestPageLink ==
    pgPhase = "done" => LabelThenSmallest(LabelResult, NumberedPageLinks)

\* no label link; two page links, the first to page 3 and the second to page
\* 2: the second is returned
C28_Witness ==
    /\ pgPhase = "done"
    /\ LabelResult = NoUrl
    /\ NumberedPageLinks = {1, 2}
    /\ AnchorNumber(pgDoc.els[1]) = Num(3)
    /\ AnchorNumber(pgDoc.els[2]) = Num(2)
    /\ pgResult = Resolve(pgDoc.els[2].href, pgUrl)
    /\ pgResult # Resolve(pgDoc.els[1].href, pgUrl)

\* the current URL with its page parameter set to currentPage + 1
ConstructedUrl == SearchSet(pgUrl, "page", NatToStr(pgPage + 1))

\* no link strategy has a candidate
NoLinkCandidate == LabelResult = NoUrl /\ NumberedPageLinks = {}

\* the pagination summary asserts that a further page exists
HasNextIn(info) == info.hasNext /\ info.currentPage < info.totalPages

SummaryHasNext == HasNextIn(parsePaginationInfo(pgDoc))

\* the summary of a document without a pagination control
DefaultsIn(info) == info.currentPage = 1 /\ info.totalPages = 1 /\ ~info.hasNext

\* the document has no pagination control at all
NoPaginationControl == \A i \in 1..Len(pgDoc.els) : ~InPagination(pgDoc.els[i])

\* what C29 says of a result, given whether no link strategy has a candidate
\* and the summary of the document
SummaryDecides(none, info) ==
    /\ (none /\ pgResult # NoUrl) =>
           /\ pgResult = ConstructedUrl
           /\ HasNextIn(info)
           /\ pgPage + 1 < UnfilteredThreshold
           /\ isValidNextPageUrl(ConstructedUrl, pgUrl, pgPage)
    /\ (none /\ ~HasNextIn(info)) => pgResult = NoUrl
    /\ (none /\ NoPaginationControl) => (DefaultsIn(info) /\ pgResult = NoUrl)
    /\ ~none =>
           \E i \in 1..Len(pgDoc.els) :
               IsAnchor(pgDoc.els[i]) /\ pgResult = Resolve(pgDoc.els[i].href, pgUrl)

-----------------------------------------------------------------------------
(* constants.js and the normalizers of utils.js used by the crawl *)

StateIds == (1..16) \cup {20, 9999}

StateEntry(name, displayName, category, aliases) ==
    [name |-> name, displayName |-> displayName, category |-> category,
     aliases |-> aliases]

MALAYSIAN_STATES ==
    [id \in StateIds |->
        CASE id = 1 -> StateEntry("johor", "Johor", "regular", {})
          [] id = 2 -> StateEntry("kedah", "Kedah", "regular", {})
          [] id = 3 -> StateEntry("kelantan", "Kelantan", "regular", {})
          [] id = 4 -> StateEntry("melaka", "Melaka", "regular", {})
          [] id = 5 -> StateEntry("negeri sembilan", "Negeri Sembilan", "regular", {})
          [] id = 6 -> StateEntry("pahang", "Pahang", "regular", {})
          [] id = 7 -> StateEntry("perak", "Perak", "regular", {})
          [] id = 8 -> StateEntry("perlis", "Perlis", "regular", {})
          [] id = 9 -> StateEntry("pulau pinang", "Pulau Pinang", "regular", {"penang"})
          [] id = 10 -> StateEntry("sabah", "Sabah", "regular", {})
          [] id = 11 -> StateEntry("sarawak", "Sarawak", "regular", {})
          [] id = 12 -> StateEntry("selangor", "Selangor", "regular", {})
          [] id = 13 -> StateEntry("terengganu", "Terengganu", "regular", {})
          [] id = 14 -> StateEntry("kuala lumpur", "Kuala Lumpur", "federal_territory", {})
          [] id = 15 -> StateEntry("labuan", "Labuan", "federal_territory", {})
          [] id = 16 -> StateEntry("putrajaya", "Putrajaya", "federal_territory", {})
          [] id = 20 -> StateEntry("foreign", "Foreign, specify", "special", {})
          [] OTHER -> StateEntry("missing", "Missing", "special", {})]

UpperLetters == Str("ABCDEFGHIJKLMNOPQRSTUVWXYZ")
LowerLetters == Str("abcdefghijklmnopqrstuvwxyz")

LowerChar(c) ==
    IF \E i \in 1..Len(UpperLetters) : UpperLetters[i] = c
    THEN LowerLetters[CHOOSE i \in 1..Len(UpperLetters) : UpperLetters[i] = c]
    ELSE c

\* String.prototype.toLowerCase
ToLower(s) == [i \in 1..Len(s) |-> LowerChar(s[i])]

\* STATE_NAME_TO_ID[key]: the id registered under a name or an alias; 0 is undefined
STATE_NAME_TO_ID(key) ==
    LET ids == {id \in StateIds :
                  \/ Str(MALAYSIAN_STATES[id].name) = key
                  \/ \E a \in MALAYSIAN_STATES[id].aliases : Str(a) = key}
    IN  IF ids = {} THEN 0 ELSE CHOOSE id \in ids : TRUE

MinNsrDigits == 6

isValidNsrNumber_SevenDigits(nsrNo) ==
    /\ Truthy(nsrNo)
    /\ Len(SelectSeq(nsrNo, LAMBDA c : c \in Digits)) > MinNsrDigits

isValidNsrNumber(nsrNo) ==
    /\ Truthy(nsrNo)
    /\ Len(SelectSeq(nsrNo, LAMBDA c : c \in Digits)) >= MinNsrDigits

buildProfileUrl(nsrNo) ==
    UrlAt(NSR_BASE_URL, "nsr/ViewSpecialistProfile.jsp", <<<<"nsrNo", nsrNo>>>>, "")

-----------------------------------------------------------------------------
(* utils.js: the field normalizers *)

getStateById(stateId) == MALAYSIAN_STATES[stateId]

\* getStateIdByName: 0 is null
getStateIdByName(stateName) ==
    IF ~Truthy(stateName) THEN 0 ELSE STATE_NAME_TO_ID(Trim(ToLower(stateName)))

\* The alternatives of PATTERNS.state in their order, each as its words; the
\* words of an alternative are separated by \s+.
StatePatternNames ==
    << <<"johor">>, <<"kedah">>, <<"kelantan">>, <<"melaka">>, <<"negeri", "sembilan">>,
       <<"pahang">>, <<"perak">>, <<"perlis">>, <<"pulau", "pinang">>, <<"penang">>,
       <<"sabah">>, <<"sarawak">>, <<"selangor">>, <<"terengganu">>,
       <<"kuala", "lumpur">>, <<"labuan">>, <<"putrajaya">> >>

\* \w
IsWordChar(c) ==
    \/ c \in Digits \/ c = "_"
    \/ \E i \in 1..Len(LowerLetters) : LowerLetters[i] = c \/ UpperLetters[i] = c

\* The words from the w-th on matched at position i of the lower-cased text:
\* the position after the match, or 0.
RECURSIVE MatchWords(_, _, _, _)
MatchWords(low, i, words, w) ==
    LET word == Str(words[w])
        j == i + Len(word)
        k == SkipWs(low, j)
    IN  IF j - 1 > Len(low) \/ SubSeq(low, i, j - 1) # word THEN 0
        ELSE IF w = Len(words) THEN j
        ELSE IF k = j THEN 0
        ELSE MatchWords(low, k, words, w + 1)

\* an alternative matched at i of the lower-cased text between two word
\* boundaries: the position after the match, or 0
StateNameAt(low, i, a) ==
    LET j == MatchWords(low, i, StatePatternNames[a], 1)
    IN  IF /\ i = 1 \/ ~IsWordChar(low[i - 1])
           /\ j # 0
           /\ j > Len(low) \/ ~IsWordChar(low[j])
        THEN j ELSE 0

\* the least number of a set
Least(S) == CHOOSE x \in S : \A y \in S : x <= y

\* the match found at position i: at its position the first alternative that
\* matches; [found, text]
StateMatchAt(s, low, i) ==
    [found |-> TRUE,
     text |-> SubSeq(s, i, StateNameAt(low, i,
                  Least({a \in DOMAIN StatePatternNames : StateNameAt(low, i, a) # 0})) - 1)]

StateMatchAmong(s, low, hits) ==
    IF hits = {} THEN [found |-> FALSE, text |-> <<>>] ELSE StateMatchAt(s, low, Least(hits))

StateMatchIn(s, low) ==
    StateMatchAmong(s, low,
        {i \in 1..Len(s) : \E a \in DOMAIN StatePatternNames : StateNameAt(low, i, a) # 0})

\* address.match(PATTERNS.state): the leftmost match
StateMatch(s) == StateMatchIn(s, ToLower(s))

MissingStateId == 9999

MissingState ==
    [stateId |-> MissingStateId, stateName |-> Str("Missing"), stateCategory |-> Str("special")]

\* if (stateId) { ... }
StateOfId(stateId) ==
    IF stateId # 0
    THEN [stateId |-> stateId, stateName |-> Str(getStateById(stateId).displayName),
          stateCategory |-> Str(getStateById(stateId).category)]
    ELSE MissingState

\* if (match) { ... }
StateOfMatch(match) ==
    IF match.found THEN StateOfId(getStateIdByName(Trim(ToLower(match.text))))
    ELSE MissingState

extractStateFromAddress(address) ==
    IF ~Truthy(address) THEN MissingState ELSE StateOfMatch(StateMatch(address))

MinPostalDigits == 5

\* address.replace(/\d{5,}/g, ''): a character goes when it stands in a run of
\* MinPostalDigits digits or more
InPostalCode(s, i) ==
    \E a \in 1..i : \E b \in i..Len(s) :
        /\ b - a + 1 >= MinPostalDigits
        /\ \A k \in a..b : s[k] \in Digits

\* the characters of s at the positions kept, in their order
Keeping(s, kept) ==
    [k \in 1..Cardinality(kept) |->
        s[CHOOSE i \in kept : Cardinality({j \in kept : j <= i}) = k]]

RemovePostalCodes(s) == Keeping(s, {i \in 1..Len(s) : ~InPostalCode(s, i)})

\* text.split(/[<seps>]+/).map(p => p.trim()).filter(Boolean): the empty pieces
\* between adjacent separators are dropped by the filter
NonEmpty(piece) == IF piece = <<>> THEN <<>> ELSE <<piece>>

RECURSIVE SplitAt(_, _, _)
SplitAt(s, seps, idx) ==
    IF idx = {} THEN NonEmpty(Trim(s))
    ELSE NonEmpty(Trim(SubSeq(s, 1, Least(idx) - 1)))
         \o SplitAt(SubSeq(s, Least(idx) + 1, Len(s)), seps,
                    {i - Least(idx) : i \in idx \ {Least(idx)}})

SplitTrimmed(s, seps) == SplitAt(s, seps, {i \in 1..Len(s) : s[i] \in seps})

\* Mutant (C39): the second-to-last part is taken whatever it holds.
CityOfParts_AnyPart(parts) ==
    IF Len(parts) >= 2 THEN parts[Len(parts) - 1] ELSE null

\* the second-to-last part, unless the state pattern is found in it
CityOfParts(parts) ==
    IF Len(parts) >= 2 /\ ~StateMatch(parts[Len(parts) - 1]).found
    THEN parts[Len(parts) - 1]
    ELSE null

extractCityFromAddress(address) ==
    IF ~Truthy(address) THEN null
    ELSE CityOfParts(SplitTrimmed(RemovePostalCodes(address), {",", "\n"}))

\* line.match(PATTERNS.qualification): ^([A-Z][A-Za-z\s\.]+)\s*\(([^)]+)\)$.
\* The first group cannot hold "(", so the parenthesis is the first one of the
\* line, at p, and the group, being greedy, is all the text before it.
QualificationMatchAt(line, p) ==
    IF /\ p >= 3
       /\ \E i \in 1..Len(UpperLetters) : UpperLetters[i] = line[1]
       /\ \A i \in 2..(p - 1) :
             \/ IsWs(line[i]) \/ line[i] = "."
             \/ (IsWordChar(line[i]) /\ line[i] \notin Digits /\ line[i] # "_")
       /\ line[Len(line)] = ")"
       /\ Len(line) - 1 >= p + 1
       /\ \A i \in (p + 1)..(Len(line) - 1) : line[i] # ")"
    THEN [found |-> TRUE, degree |-> SubSeq(line, 1, p - 1),
          body |-> SubSeq(line, p + 1, Len(line) - 1)]
    ELSE [found |-> FALSE, degree |-> <<>>, body |-> <<>>]

QualificationMatchIn(line, opens) ==
    IF opens = {} THEN [found |-> FALSE, degree |-> <<>>, body |-> <<>>]
    ELSE QualificationMatchAt(line, Least(opens))

QualificationMatch(line) == QualificationMatchIn(line, {i \in 1..Len(line) : line[i] = "("})

\* Mutant (C20): the two groups are stored as matched, without trim().
QualificationEntryOf_Untrimmed(line, match) ==
    IF match.found
    THEN [degree |-> match.degree, awardingBody |-> match.body]
    ELSE [degree |-> line, awardingBody |-> null]

QualificationEntryOf(line, match) ==
    IF match.found
    THEN [degree |-> Trim(match.degree), awardingBody |-> Trim(match.body)]
    ELSE [degree |-> line, awardingBody |-> null]

QualificationEntry(line) == QualificationEntryOf(line, QualificationMatch(line))

QualificationEntries(lines) == [i \in 1..Len(lines) |-> QualificationEntry(lines[i])]

parseQualifications(qualificationsText) ==
    IF ~Truthy(qualificationsText) THEN <<>>
    ELSE QualificationEntries(SplitTrimmed(qualificationsText, {",", ";", "\n"}))

-----------------------------------------------------------------------------
(* parser.js: the listing parser *)

\* A body row of table.searchlist: whether it is tagged table-heading, the
\* texts of its td cells, and the link of the name cell (cells[3] here, cells[2]
\* in the source, which counts from 0).
Row(heading, cells, hasLink, linkText, href) ==
    [heading |-> heading, cells |-> cells, hasLink |-> hasLink,
     linkText |-> linkText, href |-> href]

MinListingCells == 6

\* Mutant (C9): the id of the first cell is not validated.
RowGivesStub_NoValidation(row) ==
    /\ ~row.heading
    /\ Len(row.cells) >= MinListingCells

\* Mutant (C31): a row tagged table-heading gives a stub like any other row.
RowGivesStub_KeepsHeadings(row) ==
    /\ Len(row.cells) >= MinListingCells
    /\ isValidNsrNumber(cleanText(row.cells[1]))

\* The stub of one row; the row gives none when RowGivesStub is false.
RowGivesStub(row) ==
    /\ ~row.heading
    /\ Len(row.cells) >= MinListingCells
    /\ isValidNsrNumber(cleanText(row.cells[1]))

RowStub(row) ==
    LET nsrNo == cleanText(row.cells[1])
    IN  [nsrNo |-> nsrNo,
         title |-> cleanText(row.cells[2]),
         name |-> cleanText(IF row.hasLink /\ row.linkText # <<>>
                            THEN row.linkText ELSE row.cells[3]),
         gender |-> cleanText(row.cells[4]),
         location |-> cleanText(row.cells[5]),
         specialty |-> cleanText(row.cells[6]),
         profileUrl |-> IF row.hasLink /\ row.href.present
                        THEN UrlAt("https://www.nsr.org.my", row.href.path,
                                   row.href.query, row.href.hash)
                        ELSE buildProfileUrl(nsrNo)]

RECURSIVE ListingStubs(_, _)
ListingStubs(rows, i) ==
    IF i > Len(rows) THEN <<>>
    ELSE (IF RowGivesStub(rows[i]) THEN <<RowStub(rows[i])>> ELSE <<>>)
         \o ListingStubs(rows, i + 1)

\* Mutant (C13): the loop over the rows ends at the first row that is skipped.
parseListingPage_StopsAtSkippedRow(doc) ==
    LET skipped == {i \in 1..Len(doc.rows) : ~RowGivesStub(doc.rows[i])}
        first == CHOOSE i \in skipped : \A j \in skipped : i <= j
    IN  ListingStubs(IF skipped = {} THEN doc.rows ELSE SubSeq(doc.rows, 1, first - 1), 1)

parseListingPage(doc) == ListingStubs(doc.rows, 1)

\* hasResults: a row that is not a heading row; without one the answer is false
\* whether or not a "no records" phrase is present.

\* Mutant (C15): without a "no records" phrase the page counts as having results.
hasResults_UnlessPhrase(doc) ==
    IF \E i \in 1..Len(doc.rows) : ~doc.rows[i].heading THEN TRUE
    ELSE IF doc.noRecords THEN FALSE
    ELSE TRUE

hasResults(doc) ==
    IF \E i \in 1..Len(doc.rows) : ~doc.rows[i].heading THEN TRUE
    ELSE IF doc.noRecords THEN FALSE
    ELSE FALSE

-----------------------------------------------------------------------------
(* main.js: the search form and the POST request built from it *)

\* An <option>: its value attribute (null when absent), its text, whether it
\* carries the selected attribute.
Option(value, text, selected) == [value |-> value, text |-> text, selected |-> selected]

\* An input or select inside a form.  name, type and value are attributes, null
\* when absent.
Control(tag, name, type, value, checked, multiple, options) ==
    [tag |-> tag, name |-> name, type |-> type, value |-> value,
     checked |-> checked, multiple |-> multiple, options |-> options]

Input(name, type, value, checked) == Control("input", name, type, value, checked, FALSE, <<>>)
Select(name, multiple, options) == Control("select", name, null, null, FALSE, multiple, options)

\* a || b on strings and absent attributes
OrElse(a, b) == IF Truthy(a) THEN a ELSE b

\* find('option:selected'): the options carrying selected, or the first option
\* of a single-choice select none of whose options carries it
SelectedOptions(c) ==
    LET marked == SelectSeq(c.options, LAMBDA o : o.selected)
    IN  IF marked # <<>> THEN marked
        ELSE IF ~c.multiple /\ c.options # <<>> THEN <<c.options[1]>>
        ELSE <<>>

RECURSIVE OptionTexts(_)
OptionTexts(os) == IF os = <<>> THEN <<>> ELSE os[1].text \o OptionTexts(Tail(os))

\* formData[name] = value: an existing key keeps its place
RECURSIVE ObjectSet(_, _, _)
ObjectSet(obj, name, value) ==
    IF obj = <<>> THEN <<<<name, value>>>>
    ELSE IF obj[1][1] = name THEN <<<<name, value>>>> \o Tail(obj)
    ELSE <<obj[1]>> \o ObjectSet(Tail(obj), name, value)

ObjectHas(obj, name) == \E i \in 1..Len(obj) : obj[i][1] = name
ObjectGet(obj, name) == obj[CHOOSE i \in 1..Len(obj) : obj[i][1] = name][2]

\* what one control adds to formData
ControlCaptured(c) ==
    LET type == IF Truthy(c.type) THEN c.type ELSE Str(c.tag)
    IN  /\ Truthy(c.name)
        /\ \/ type \in {Str("hidden"), Str("input"), Str("select")}
           \/ type \in {Str("checkbox"), Str("radio")} /\ c.checked

ControlValue(c) ==
    LET type == IF Truthy(c.type) THEN c.type ELSE Str(c.tag)
        selected == SelectedOptions(c)
    IN  IF type \in {Str("hidden"), Str("input")} THEN OrElse(c.value, <<>>)
        ELSE IF type = Str("select")
        THEN (IF Len(selected) > 0
              THEN OrElse(selected[1].value, OptionTexts(selected))
              ELSE OrElse(IF c.options # <<>> THEN c.options[1].value ELSE null, <<>>))
        ELSE OrElse(c.value, Str("on"))

RECURSIVE CaptureControls(_, _, _)
CaptureControls(controls, i, formData) ==
    IF i > Len(controls) THEN formData
    ELSE CaptureControls(controls, i + 1,
            IF ControlCaptured(controls[i])
            THEN ObjectSet(formData, controls[i].name, ControlValue(controls[i]))
            ELSE formData)

extractFormFields(doc) == CaptureControls(doc.controls, 1, <<>>)

\* the printable ASCII characters, code 32 upwards
\* (the grave accent, code 96, is written U+0060)
Ascii == Str(" !\"#$%&'()*+,-./0123456789:;<=>?@ABCDEFGHIJKLMNOPQRSTUVWXYZ[\\]^_")
         \o <<"U+0060">> \o Str("abcdefghijklmnopqrstuvwxyz{|}~")
AsciiBase == 32 - 1
AsciiCode(c) == AsciiBase + (CHOOSE i \in 1..Len(Ascii) : Ascii[i] = c)
HexDigits == Str("0123456789ABCDEF")
Unreserved == {LowerLetters[i] : i \in 1..Len(LowerLetters)}
              \cup {UpperLetters[i] : i \in 1..Len(UpperLetters)}
              \cup Digits \cup {"-", "_", ".", "!", "~", "*", "'", "(", ")"}

RECURSIVE encodeURIComponent(_)
encodeURIComponent(s) ==
    IF s = <<>> THEN <<>>
    ELSE (IF s[1] \in Unreserved THEN <<s[1]>>
          ELSE <<"%", HexDigits[(AsciiCode(s[1]) \div 16) + 1],
                      HexDigits[(AsciiCode(s[1]) % 16) + 1]>>)
         \o encodeURIComponent(Tail(s))

RECURSIVE JoinEntries(_)
JoinEntries(entries) ==
    IF entries = <<>> THEN <<>>
    ELSE encodeURIComponent(entries[1][1]) \o <<"=">> \o encodeURIComponent(entries[1][2])
         \o (IF Len(entries) > 1 THEN <<"&">> ELSE <<>>) \o JoinEntries(Tail(entries))

\* Mutant (C7): the filter value the form preselected is kept.
buildSearchPostRequest_KeepsPreselection(stateId, formData) ==
    [url |-> Url(ListPath, <<>>, ""),
     method |-> "POST",
     payload |-> JoinEntries(IF ObjectHas(formData, Str(FilterParam)) THEN formData
                             ELSE ObjectSet(formData, Str(FilterParam), NatToStr(stateId)))]

\* the request of buildSearchPostRequest: formData with state_ForSearch set to
\* the target, serialised as a urlencoded body
buildSearchPostRequest(stateId, formData) ==
    [url |-> Url(ListPath, <<>>, ""),
     method |-> "POST",
     payload |-> JoinEntries(ObjectSet(formData, Str(FilterParam), NatToStr(stateId)))]

-----------------------------------------------------------------------------
(* parser.js: the profile parser.  A profile document is [tables, nameEls,  *)
(* specialtyEls, dls]: the table.table-bordered elements in document order, *)
(* each [text, rows] with the text outside its td cells and the cell texts  *)
(* of its rows; the texts of the elements matching the name and specialty   *)
(* fallback selectors; the definition lists as [dt, dd] text sequences.     *)
(* The job title and the renewal date are left out of the record; a null   *)
(* stateId is 0.                                                            *)

Table(text, rows) == [text |-> text, rows |-> rows]

\* utils.js extractGender: the leftmost "male" or "female", any case
extractGender(text) ==
    LET low == ToLower(text)
        At(i, w) == i + Len(w) - 1 <= Len(low) /\ SubSeq(low, i, i + Len(w) - 1) = w
        hits == {i \in 1..Len(low) : At(i, Str("male")) \/ At(i, Str("female"))}
        first == CHOOSE i \in hits : \A j \in hits : i <= j
    IN  IF ~Truthy(text) \/ hits = {} THEN null
        ELSE IF At(first, Str("female")) THEN Str("Female") ELSE Str("Male")

EmptySpecialist(nsrNo) ==
    [nsrNo |-> nsrNo, profileUrl |-> buildProfileUrl(nsrNo),
     name |-> null, title |-> null, gender |-> null, specialty |-> null,
     qualifications |-> <<>>, qualificationsStructured |-> <<>>,
     state |-> null, stateId |-> 0, state_category |-> null, city |-> null,
     address |-> null, establishment |-> null, sector |-> null]

\* the state fields of the record
SetState(sp, stateInfo) ==
    [sp EXCEPT !.state = stateInfo.stateName, !.stateId = stateInfo.stateId,
               !.state_category = stateInfo.stateCategory]

\* Mutant (C38): a new address leaves the state fields as they are.
SetAddress_StateKept(sp, address) ==
    [sp EXCEPT !.address = address, !.city = extractCityFromAddress(address)]

\* the address of the record and the state and city derived from it
SetAddress(sp, address) ==
    [SetState(sp, extractStateFromAddress(address)) EXCEPT
        !.address = address, !.city = extractCityFromAddress(address)]

NoSection == [inPersonalData |-> FALSE, inClinicalPractice |-> FALSE, inQualifications |-> FALSE]

RECURSIVE ConcatAll(_)
ConcatAll(ss) == IF ss = <<>> THEN <<>> ELSE ss[1] \o ConcatAll(Tail(ss))

\* $table.text()
TableText(t) == t.text \o ConcatAll([i \in 1..Len(t.rows) |-> ConcatAll(t.rows[i])])

\* Mutant (C32): a heading raises its flag and leaves the other flags alone.
SectionAt_FlagsKept(sec, t) ==
    IF Includes(TableText(t), Str("Personal Data"))
    THEN [sec EXCEPT !.inPersonalData = TRUE]
    ELSE IF Includes(TableText(t), Str("Clinical Practice"))
    THEN [sec EXCEPT !.inClinicalPractice = TRUE]
    ELSE IF Includes(TableText(t), Str("Qualifications"))
            \/ Includes(TableText(t), Str("Degree/Membership/Fellowship"))
    THEN [sec EXCEPT !.inQualifications = TRUE]
    ELSE sec

\* the section flags after looking at a table
SectionAt(sec, t) ==
    LET tableText == TableText(t)
    IN  IF Includes(tableText, Str("Personal Data"))
        THEN [inPersonalData |-> TRUE, inClinicalPractice |-> FALSE, inQualifications |-> FALSE]
        ELSE IF Includes(tableText, Str("Clinical Practice"))
        THEN [inPersonalData |-> FALSE, inClinicalPractice |-> TRUE, inQualifications |-> FALSE]
        ELSE IF Includes(tableText, Str("Qualifications"))
                \/ Includes(tableText, Str("Degree/Membership/Fellowship"))
        THEN [inPersonalData |-> FALSE, inClinicalPractice |-> FALSE, inQualifications |-> TRUE]
        ELSE sec

\* year ? parseInt(year) : null
YearOf(year) ==
    IF ~Truthy(year) THEN [kind |-> "null", val |-> 0]
    ELSE IF ParseInt(year).nan THEN [kind |-> "NaN", val |-> 0]
    ELSE [kind |-> "number", val |-> ParseInt(year).val]

\* Mutant (C34): an entry without a year is pushed on the structured list only.
QualificationRow_YearlessUnlisted(sp, degree, awardingBody, year) ==
    IF /\ Truthy(degree)
       /\ ~Includes(ToLower(degree), Str("degree/membership"))
       /\ ~Includes(ToLower(degree), Str("basic degree"))
       /\ ~Includes(ToLower(degree), Str("specialist degree"))
       /\ Truthy(awardingBody)
       /\ ~Includes(ToLower(awardingBody), Str("awarding body"))
    THEN [sp EXCEPT
            !.qualifications =
                IF Truthy(year)
                THEN Append(@, degree \o Str(" (") \o awardingBody
                               \o Str(", ") \o year \o Str(")"))
                ELSE @,
            !.qualificationsStructured = Append(@,
                [degree |-> degree, awardingBody |-> awardingBody,
                 year |-> YearOf(year)])]
    ELSE sp

\* a three-cell row of the qualifications section (parser.js:124-143)
QualificationRow(sp, degree, awardingBody, year) ==
    IF /\ Truthy(degree)
       /\ ~Includes(ToLower(degree), Str("degree/membership"))
       /\ ~Includes(ToLower(degree), Str("basic degree"))
       /\ ~Includes(ToLower(degree), Str("specialist degree"))
       /\ Truthy(awardingBody)
       /\ ~Includes(ToLower(awardingBody), Str("awarding body"))
    THEN [sp EXCEPT
            !.qualifications = Append(@, degree \o Str(" (") \o awardingBody
                                         \o Str(", ") \o year \o Str(")")),
            !.qualificationsStructured = Append(@,
                [degree |-> degree, awardingBody |-> awardingBody,
                 year |-> YearOf(year)])]
    ELSE sp

\* a row read as a label and its value (parser.js:145-177)
LabelValueRow(sp, sec, label, value, nsrNo) ==
    IF Includes(label, Str("nsr no"))
    THEN [sp EXCEPT !.nsrNo = OrElse(value, nsrNo)]
    ELSE IF label = Str("title") /\ sec.inPersonalData
    THEN [sp EXCEPT !.title = value]
    ELSE IF label = Str("name") /\ sec.inPersonalData
    THEN [sp EXCEPT !.name = value]
    ELSE IF label = Str("name") /\ sec.inClinicalPractice
    THEN [sp EXCEPT !.establishment = value]
    ELSE IF Includes(label, Str("gender"))
    THEN [sp EXCEPT !.gender = OrElse(extractGender(value), value)]
    ELSE IF Includes(label, Str("field")) /\ Includes(label, Str("practice"))
    THEN [sp EXCEPT !.specialty = value]
    ELSE IF Includes(label, Str("address"))
    THEN SetAddress(sp, value)
    ELSE IF Includes(label, Str("sector"))
    THEN [sp EXCEPT !.sector = value]
    ELSE sp

\* Mutant (C36): the label / value rows are read as in the personal-data
\* section whatever the section is.
ProfileRow_SectionIgnored(sp, sec, cells, nsrNo) ==
    IF sec.inQualifications /\ Len(cells) = 3
    THEN QualificationRow(sp, cleanText(cells[1]), cleanText(cells[2]), cleanText(cells[3]))
    ELSE IF Len(cells) >= 2
    THEN LabelValueRow(sp, [NoSection EXCEPT !.inPersonalData = TRUE],
                       ToLower(cleanText(cells[Len(cells) - 1])),
                       cleanText(cells[Len(cells)]), nsrNo)
    ELSE sp

\* one row of a table
ProfileRow(sp, sec, cells, nsrNo) ==
    IF sec.inQualifications /\ Len(cells) = 3
    THEN QualificationRow(sp, cleanText(cells[1]), cleanText(cells[2]), cleanText(cells[3]))
    ELSE IF Len(cells) >= 2
    THEN LabelValueRow(sp, sec, ToLower(cleanText(cells[Len(cells) - 1])),
                       cleanText(cells[Len(cells)]), nsrNo)
    ELSE sp

RECURSIVE ProfileRows(_, _, _, _, _)
ProfileRows(sp, sec, rows, i, nsrNo) ==
    IF i > Len(rows) THEN sp
    ELSE ProfileRows(ProfileRow(sp, sec, rows[i], nsrNo), sec, rows, i + 1, nsrNo)

RECURSIVE ProfileTables(_, _, _, _, _)
ProfileTables(sp, sec, tables, t, nsrNo) ==
    IF t > Len(tables) THEN sp
    ELSE LET here == SectionAt(sec, tables[t])
         IN  ProfileTables(ProfileRows(sp, here, tables[t].rows, 1, nsrNo),
                           here, tables, t + 1, nsrNo)

\* one dt / dd pair of a definition list
ProfileTerm(sp, dt, dd) ==
    LET labelText == ToLower(cleanText(dt))
        valueText == cleanText(dd)
    IN  IF Includes(labelText, Str("name")) /\ ~Truthy(sp.name)
        THEN [sp EXCEPT !.name = valueText]
        ELSE IF Includes(labelText, Str("specialty")) /\ ~Truthy(sp.specialty)
        THEN [sp EXCEPT !.specialty = valueText]
        ELSE IF Includes(labelText, Str("address")) /\ ~Truthy(sp.address)
        THEN SetAddress(sp, valueText)
        ELSE sp

RECURSIVE ProfileTerms(_, _, _)
ProfileTerms(sp, dl, i) ==
    IF i > Len(dl.dt) THEN sp
    ELSE ProfileTerms(IF i > Len(dl.dd) THEN sp ELSE ProfileTerm(sp, dl.dt[i], dl.dd[i]),
                      dl, i + 1)

RECURSIVE ProfileLists(_, _, _)
ProfileLists(sp, dls, d) ==
    IF d > Len(dls) THEN sp
    ELSE ProfileLists(ProfileTerms(sp, dls[d], 1), dls, d + 1)

\* Mutant (C37): the name element is taken whether or not a name was found.
FillName_Overwrites(sp, doc) ==
    IF doc.nameEls # <<>>
    THEN [sp EXCEPT !.name = cleanText(ConcatAll(doc.nameEls))]
    ELSE sp

\* the fallback passes over the name and specialty elements
FillName(sp, doc) ==
    IF doc.nameEls # <<>> /\ ~Truthy(sp.name)
    THEN [sp EXCEPT !.name = cleanText(ConcatAll(doc.nameEls))]
    ELSE sp

FillSpecialty(sp, doc) ==
    IF doc.specialtyEls # <<>> /\ ~Truthy(sp.specialty)
    THEN [sp EXCEPT !.specialty = cleanText(ConcatAll(doc.specialtyEls))]
    ELSE sp

\* the state is still missing and there is an address
FillState(sp) ==
    IF ~Truthy(sp.state) /\ Truthy(sp.address)
    THEN SetState(sp, extractStateFromAddress(sp.address))
    ELSE sp

parseProfilePage(doc, nsrNo) ==
    FillState(ProfileLists(
        FillSpecialty(FillName(ProfileTables(EmptySpecialist(nsrNo), NoSection, doc.tables, 1, nsrNo),
                               doc), doc),
        doc.dls, 1))

-----------------------------------------------------------------------------
(* The crawl: start requests, the request queue, the handlers *)

\* A uniqueKey.  The keys the program builds are SEARCH-FORM-<sid>,
\* SEARCH-<sid>-<page> and PAGE-<page>; a request added without one gets the
\* key the queue derives from its URL, in which the fragment is dropped.
Key(kind, sid, page, url) == [kind |-> kind, sid |-> sid, page |-> page, url |-> url]
FormKey(sid) == Key("SEARCH-FORM", sid, 0, NoUrl)
SearchKey(sid, page) == Key("SEARCH", sid, page, NoUrl)
PageKey(page) == Key("PAGE", 0, page, NoUrl)
DefaultUniqueKey(url) == Key("url", 0, 0, [url EXCEPT !.hash = ""])
StartKey == Key("start", 0, 0, NoUrl)

\* A request: uniqueKey, userData (label, stateId, page, nsrNo; 0 and null are
\* undefined), url, method and payload.  by is the key of the task whose
\* handler added it (StartKey for a start request); the program does not keep it.
Task(key, label, url, method, payload, stateId, page, nsrNo, by) ==
    [key |-> key, label |-> label, url |-> url, method |-> method,
     payload |-> payload, stateId |-> stateId, page |-> page, nsrNo |-> nsrNo,
     by |-> by]

\* crawler.addRequests([t]): refused when the key is known
AddRequests(q, t) == IF \E u \in q : u.key = t.key THEN q ELSE q \cup {t}

RECURSIVE AddAll(_, _)
AddAll(q, ts) == IF ts = <<>> THEN q ELSE AddAll(AddRequests(q, Head(ts)), Tail(ts))

NSR_SEARCH_URL == Url("list11.asp", <<>>, "")

buildSearchGetUrl(stateId, page) ==
    LET base == SearchSet(Url(ListPath, <<>>, ""), FilterParam, NatToStr(stateId))
    IN  IF page > 1 THEN SearchSet(base, "page", NatToStr(page)) ELSE base

\* Object.keys(MALAYSIAN_STATES).map(id => parseInt(id)): ascending
RECURSIVE AllStateIds(_)
AllStateIds(S) ==
    IF S = {} THEN <<>>
    ELSE LET m == CHOOSE x \in S : \A y \in S : x <= y
         IN  <<m>> \o AllStateIds(S \ {m})

\* states.map(s => STATE_NAME_TO_ID[s.toLowerCase()]).filter(Boolean), or all
statesToScrape(states) ==
    IF Len(states) > 0
    THEN SelectSeq([i \in 1..Len(states) |-> STATE_NAME_TO_ID(ToLower(Str(states[i])))],
                   LAMBDA id : id # 0)
    ELSE AllStateIds(StateIds)

\* Mutant (C21): the special targets are never skipped.
StartTargets_KeepsSpecial(states) ==
    statesToScrape(states)

\* the targets that get a start request
StartTargets(states) ==
    SelectSeq(statesToScrape(states),
              LAMBDA id : ~(MALAYSIAN_STATES[id].category = "special" /\ Len(states) = 0))

\* Mutant (C26): the form request is keyed by its position in the states input.
FormStartRequests_KeyedByPosition(states) ==
    LET ids == StartTargets(states)
    IN  [i \in 1..Len(ids) |->
            Task(Key("SEARCH-FORM", ids[i], i, NoUrl), "SEARCH_FORM", NSR_SEARCH_URL, "GET", <<>>,
                 ids[i], 1, null, StartKey)]

\* main.js: one form request per target
FormStartRequests(states) ==
    LET ids == StartTargets(states)
    IN  [i \in 1..Len(ids) |->
            Task(FormKey(ids[i]), "SEARCH_FORM", NSR_SEARCH_URL, "GET", <<>>,
                 ids[i], 1, null, StartKey)]

\* Mutant (C8): the second page of every target is requested at start too.
SearchStartRequests_Pregenerated(states) ==
    LET ids == StartTargets(states)
    IN  [i \in 1..(2 * Len(ids)) |->
            LET id == ids[(i + 1) \div 2]
                page == 2 - (i % 2)
            IN  Task(SearchKey(id, page), "SEARCH", buildSearchGetUrl(id, page), "GET", <<>>,
                     id, page, null, StartKey)]

\* part_003, state-filtered mode: one search request per target
SearchStartRequests(states) ==
    LET ids == StartTargets(states)
    IN  [i \in 1..Len(ids) |->
            Task(SearchKey(ids[i], 1), "SEARCH", buildSearchGetUrl(ids[i], 1), "GET", <<>>,
                 ids[i], 1, null, StartKey)]

\* part_003, full crawl: the pages 1..totalPages of the unfiltered list
PageStartRequests(totalPages) ==
    [page \in 1..totalPages |->
        Task(PageKey(page), "LIST",
             IF page = 1 THEN Url(ListPath, <<>>, "")
             ELSE Url(ListPath, <<<<"page", NatToStr(page)>>>>, ""),
             "GET", <<>>, 0, page, null, StartKey)]

\* the request of a stub, added by the listing handler t
ProfileRequest(stub, t) ==
    Task(DefaultUniqueKey(stub.profileUrl), "PROFILE", stub.profileUrl, "GET", <<>>,
         t.stateId, 0, stub.nsrNo, t.key)

\* main.js handleSearchPage, lines 246-277: the request of the next page, as a
\* sequence of at most one request
NextPageRequests(doc, t) ==
    LET IsNext(e) == /\ e.tag = "a"
                     /\ \/ Includes(e.text, sNext)
                        \/ Includes(e.text, sRaquo)
                        \/ (e.box = sPagination /\ e.last)
                     /\ e.cls # sDisabled
        i == FirstIndex(doc.els, IsNext)
        nextPageUrl == doc.els[i].href
    IN  IF ~parsePaginationInfo(doc).hasNext THEN <<>>
        ELSE IF i = 0 THEN <<>>
        ELSE IF ~nextPageUrl.present THEN <<>>
        ELSE IF nextPageUrl.bad THEN <<>>
        ELSE <<Task(SearchKey(t.stateId, t.page + 1), "SEARCH",
                    Resolve(nextPageUrl, t.url), "GET", <<>>,
                    t.stateId, t.page + 1, null, t.key)>>

-----------------------------------------------------------------------------
(* The documents the source site may serve.  A served document is one        *)
(* record with the parts every parser looks at.                              *)

Doc(rows, els, noRecords, controls, tables, nameEls, specialtyEls, dls) ==
    [rows |-> rows, els |-> els, noRecords |-> noRecords, controls |-> controls,
     tables |-> tables, nameEls |-> nameEls, specialtyEls |-> specialtyEls, dls |-> dls]

ListingDoc(rows, els, noRecords) == Doc(rows, els, noRecords, <<>>, <<>>, <<>>, <<>>, <<>>)
FormDoc(controls) == Doc(<<>>, <<>>, FALSE, controls, <<>>, <<>>, <<>>, <<>>)
ProfileDoc(tables, nameEls) == Doc(<<>>, <<>>, FALSE, <<>>, tables, nameEls, <<>>, <<>>)

idA == Str("123456")
idB == Str("NSR 654321")
idShort == Str("12345")

DetailHref(n) == Href("list1viewdetails.asp", <<<<"id", Str(n)>>>>, "")

ListingRow(id, name, hasLink, href) ==
    Row(FALSE, <<id, Str("Dr"), Str(name), Str("Male"), Str("Melaka"), Str("Surgery")>>,
        hasLink, Str(name), href)

rowHeading == Row(TRUE, <<Str("NSR No"), Str("Title"), Str("Name")>>, FALSE, <<>>, NoHref)
rowA == ListingRow(Str(" 123456 "), "Ali", TRUE, DetailHref("1"))
rowAPlain == ListingRow(idA, "Ali", FALSE, NoHref)
rowB == ListingRow(idB, "Bala", TRUE, DetailHref("2"))
rowInvalid == ListingRow(idShort, "Chong", TRUE, DetailHref("3"))
rowNarrow == Row(FALSE, <<idA, Str("Dr"), Str("Ali")>>, FALSE, <<>>, NoHref)

PageHref(p) == Href("", <<<<"page", Str(p)>>>>, "")
NextIn(box, href) == El("a", sNext, <<>>, box, TRUE, href)

ListingDocs ==
    { ListingDoc(<<rowHeading, rowA, rowB>>, <<NextIn(sPagination, PageHref("2"))>>, FALSE),
      ListingDoc(<<rowInvalid, rowAPlain, rowNarrow>>, <<NextIn(<<>>, PageHref("3"))>>, FALSE),
      ListingDoc(<<rowB>>, <<NextIn(sPagination, PageHref("1006"))>>, FALSE),
      ListingDoc(<<rowA>>, <<NextIn(sPaging, PageHref("1"))>>, FALSE),
      ListingDoc(<<>>, <<>>, TRUE) }

PersonalData(rows) == Table(Str("Personal Data"), rows)

ProfileDocs ==
    { ProfileDoc(<<PersonalData(<<<<Str("Name"), Str("Ali bin Abu")>>,
                                  <<Str("Gender"), Str("Male")>>>>)>>, <<>>),
      ProfileDoc(<<PersonalData(<<<<Str("NSR No"), idShort>>,
                                  <<Str("Name"), Str("Chong")>>,
                                  <<Str("Gender"), Str("Lelaki")>>>>)>>, <<>>),
      ProfileDoc(<<PersonalData(<<<<Str("NSR No."), idB>>>>)>>, <<Str("Bala")>>) }

FormDocs ==
    { FormDoc(<<Input(Str("token"), Str("hidden"), Str("abc"), FALSE),
                Select(Str(FilterParam), FALSE,
                       <<Option(Str("1"), Str("Johor"), FALSE),
                         Option(Str("9"), Str("Pulau Pinang"), TRUE)>>),
                Input(Str("buttonSearch"), Str("submit"), Str("Show"), FALSE)>>),
      FormDoc(<<Input(Str("a&b"), null, Str("x=1 y"), FALSE),
                Input(Str("agree"), Str("checkbox"), null, TRUE),
                Input(null, Str("hidden"), Str("z"), FALSE),
                Select(Str("field"), FALSE, <<Option(null, Str("Any"), FALSE)>>)>>),
      FormDoc(<<>>) }

\* the scenario: a form with the hidden field token=abc; a first page with two
\* valid rows and a "Next" link to page=2; a second page without rows that
\* says "no records found"
E2EFormDocs == { FormDoc(<<Input(Str("token"), Str("hidden"), Str("abc"), FALSE)>>) }

E2ENextLinks ==
    { NextIn(box, href) : box \in {<<>>, sPagination, sPaging},
                          href \in {PageHref("2"),
                                    Href(ListPath, <<<<"page", Str("2")>>>>, "")} }

E2EFirstPages ==
    { ListingDoc(<<rowHeading, rowA, rowB>>, <<next>>, FALSE) : next \in E2ENextLinks }

E2ESecondPages == { ListingDoc(<<>>, <<>>, TRUE), ListingDoc(<<rowHeading>>, <<>>, TRUE) }

\* the scenario with one document of each kind
PlainFirstPage == ListingDoc(<<rowHeading, rowA, rowB>>, <<NextIn(<<>>, PageHref("2"))>>, FALSE)
PlainSecondPage == ListingDoc(<<>>, <<>>, TRUE)
PlainProfile == ProfileDoc(<<PersonalData(<<<<Str("Name"), Str("Ali bin Abu")>>>>)>>, <<>>)

\* the documents the site may answer a request with
Served(t) ==
    IF site = "e2e"
    THEN (CASE t.label = "SEARCH_FORM" -> E2EFormDocs
            [] t.label = "SEARCH" /\ t.page = 1 -> E2EFirstPages
            [] t.label = "SEARCH" /\ t.page # 1 -> E2ESecondPages
            [] OTHER -> ProfileDocs)
    ELSE IF site = "plain"
    THEN (CASE t.label = "SEARCH_FORM" -> E2EFormDocs
            [] t.label = "SEARCH" /\ t.page = 1 -> {PlainFirstPage}
            [] t.label = "SEARCH" /\ t.page # 1 -> {PlainSecondPage}
            [] OTHER -> {PlainProfile})
    ELSE (CASE t.label = "SEARCH_FORM" -> FormDocs
            [] t.label \in {"SEARCH", "LIST"} -> ListingDocs
            [] OTHER -> ProfileDocs)

-----------------------------------------------------------------------------
(* The run *)

MaxConcurrency == 2
MaxRequestsPerCrawl == 3
TotalPages == 2

Variants == {"formPost", "stateFiltered", "fullCrawl"}

\* the states input of a run
StatesInputs == { <<"Melaka">>, <<"penang", "atlantis", "Pulau Pinang", "Kedah">> }

StartRequests(v, states) ==
    IF v = "formPost" THEN FormStartRequests(states)
    ELSE IF v = "stateFiltered" THEN SearchStartRequests(states)
    ELSE PageStartRequests(TotalPages)

\* before any handler has begun
NoTask == Task(StartKey, "none", NoUrl, "GET", <<>>, 0, 0, null, StartKey)
NoDoc == Doc(<<>>, <<>>, FALSE, <<>>, <<>>, <<>>, <<>>, <<>>)

IdlePagination ==
    /\ pgDoc = <<>>
    /\ pgUrl = NoUrl
    /\ pgPage = 0
    /\ pgResult = NoUrl
    /\ pgPhase = "idle"

\* crawler.run(urls)
InitRun(v, s, states, limit) ==
    /\ IdlePagination
    /\ variant = v
    /\ maxRequestsPerCrawl = limit
    /\ site = s
    /\ queue = AddAll({}, StartRequests(v, states))
    /\ running = {}
    /\ handled = {}
    /\ dataset = EmptyBag
    /\ started = 0
    /\ latest = [task |-> NoTask, doc |-> NoDoc]
    /\ errors = {}
    /\ IdleFunctions

Init == \E v \in Variants, states \in StatesInputs : InitRun(v, "any", states, MaxRequestsPerCrawl)

InitE2E == InitRun("formPost", "e2e", <<"Melaka">>, 0)

\* the tasks waiting for a worker
Pending == {t \in queue : t.key \notin handled /\ \A r \in running : r.task.key # t.key}

\* maxRequestsPerCrawl > 0 ? maxRequestsPerCrawl : undefined
CanStart ==
    /\ maxRequestsPerCrawl > 0 => started < maxRequestsPerCrawl
    /\ Cardinality(running) < MaxConcurrency

\* a worker takes task t and the site answers doc
Fetch(t, doc) ==
    /\ CanStart
    /\ t \in Pending
    /\ doc \in Served(t)
    /\ started' = started + 1
    /\ latest' = [task |-> t, doc |-> doc]

\* main.js handleSearchForm
HandleSearchForm ==
    \E t \in queue : \E doc \in Served(t) :
        /\ variant = "formPost"
        /\ t.label = "SEARCH_FORM"
        /\ Fetch(t, doc)
        /\ LET postRequest == buildSearchPostRequest(t.stateId, extractFormFields(doc))
           IN  queue' = AddRequests(queue,
                   Task(SearchKey(t.stateId, 1), "SEARCH", postRequest.url,
                        postRequest.method, postRequest.payload,
                        t.stateId, 1, null, t.key))
        /\ handled' = handled \cup {t.key}
        /\ UNCHANGED <<pgVars, fnVars, errors, variant, maxRequestsPerCrawl, site, running, dataset>>

\* a listing handler up to its first await: hasResults and parseListingPage
BeginListing(t, doc) ==
    /\ Fetch(t, doc)
    /\ IF hasResults(doc)
       THEN /\ running' = running \cup {[task |-> t, doc |-> doc, todo |-> parseListingPage(doc)]}
            /\ handled' = handled
       ELSE /\ running' = running
            /\ handled' = handled \cup {t.key}
    /\ UNCHANGED <<pgVars, fnVars, errors, variant, maxRequestsPerCrawl, site, queue, dataset>>

\* main.js handleSearchPage, lines 220-231
BeginSearchPage ==
    \E t \in queue : \E doc \in Served(t) :
        /\ variant = "formPost"
        /\ t.label = "SEARCH"
        /\ BeginListing(t, doc)

\* part_003 handleListPage, lines 682-696
BeginListPage ==
    \E t \in queue : \E doc \in Served(t) :
        /\ variant # "formPost"
        /\ t.label \in {"LIST", "SEARCH"}
        /\ BeginListing(t, doc)

\* Mutant (C25): the loop stops after the first stub.
EnqueueProfile_FirstStubOnly ==
    \E r \in running :
        /\ r.todo # <<>>
        /\ queue' = AddRequests(queue, ProfileRequest(Head(r.todo), r.task))
        /\ running' = (running \ {r}) \cup {[r EXCEPT !.todo = <<>>]}
        /\ UNCHANGED <<pgVars, fnVars, errors, variant, maxRequestsPerCrawl, site, handled, dataset, started, latest>>

\* one turn of the loop over the stubs: await crawler.addRequests([...])
EnqueueProfile ==
    \E r \in running :
        /\ r.todo # <<>>
        /\ queue' = AddRequests(queue, ProfileRequest(Head(r.todo), r.task))
        /\ running' = (running \ {r}) \cup {[r EXCEPT !.todo = Tail(@)]}
        /\ UNCHANGED <<pgVars, fnVars, errors, variant, maxRequestsPerCrawl, site, handled, dataset, started, latest>>

\* main.js handleSearchPage after the loop: the next page
FinishSearchPage ==
    \E r \in running :
        /\ variant = "formPost"
        /\ r.todo = <<>>
        /\ queue' = AddAll(queue, NextPageRequests(r.doc, r.task))
        /\ running' = running \ {r}
        /\ handled' = handled \cup {r.task.key}
        /\ UNCHANGED <<pgVars, fnVars, errors, variant, maxRequestsPerCrawl, site, dataset, started, latest>>

\* Mutant (C30): the GET handler follows the next page as the form-POST one does.
FinishListPage_Paginates ==
    \E r \in running :
        /\ variant # "formPost"
        /\ r.todo = <<>>
        /\ queue' = AddAll(queue, NextPageRequests(r.doc, r.task))
        /\ running' = running \ {r}
        /\ handled' = handled \cup {r.task.key}
        /\ UNCHANGED <<pgVars, fnVars, errors, variant, maxRequestsPerCrawl, site, dataset, started, latest>>

\* part_003 handleListPage after the loop: no pagination
FinishListPage ==
    \E r \in running :
        /\ variant # "formPost"
        /\ r.todo = <<>>
        /\ running' = running \ {r}
        /\ handled' = handled \cup {r.task.key}
        /\ UNCHANGED <<pgVars, fnVars, errors, variant, maxRequestsPerCrawl, site, queue, dataset, started, latest>>

\* handleProfilePage: parseProfilePage, then Dataset.pushData
HandleProfilePage ==
    \E t \in queue : \E doc \in Served(t) :
        /\ t.label = "PROFILE"
        /\ Fetch(t, doc)
        /\ dataset' = dataset (+) SetToBag({parseProfilePage(doc, t.nsrNo)})
        /\ handled' = handled \cup {t.key}
        /\ UNCHANGED <<pgVars, fnVars, errors, variant, maxRequestsPerCrawl, site, queue, running>>

Next ==
    \/ HandleSearchForm
    \/ BeginSearchPage
    \/ BeginListPage
    \/ EnqueueProfile
    \/ FinishSearchPage
    \/ FinishListPage
    \/ HandleProfilePage

Spec == Init /\ [][Next]_vars

NextE2E ==
    \/ HandleSearchForm
    \/ BeginSearchPage
    \/ EnqueueProfile
    \/ FinishSearchPage
    \/ HandleProfilePage

SpecE2E == InitE2E /\ [][NextE2E]_vars

-----------------------------------------------------------------------------
(* Properties of the run *)

IsListing(t) == t.label \in {"SEARCH", "LIST"}
IsDetail(t) == t.label = "PROFILE"

\* the run has nothing left to do
RunEnded == Pending = {} /\ running = {}

\* the LISTING task (or start) that added task t
Producer(t) == CHOOSE u \in queue : u.key = t.by

\* C3: every next-page request followed by the pagination walk addresses a page
\* number strictly larger than the page of the listing task that produced it.
C3_WalkAdvances ==
    \A t \in queue :
        (t.label = "SEARCH" /\ t.by.kind = "SEARCH" /\ HasPageNumber(t.url))
            => NumGt(PageNumber(t.url), Producer(t).page)

\* C4: DETAIL tasks that two different LISTING handlers enqueued for the same
\* id are accepted at most once: the queue never holds two of them.
C4_OneDetailPerId ==
    \A t, u \in queue :
        (IsDetail(t) /\ IsDetail(u) /\ t.nsrNo = u.nsrNo /\ t.by # u.by) => t = u

\* C5: the Records in the dataset have pairwise distinct ids.
C5_DistinctRecordIds ==
    \A r \in BagToSet(dataset) :
        /\ CopiesIn(r, dataset) = 1
        /\ \A q \in BagToSet(dataset) : q.nsrNo = r.nsrNo => q = r

\* C6: when the run of the scenario has ended, it has created exactly two
\* DETAIL tasks, has created and handled LISTING(page=2), and has created no
\* LISTING task of a later page.
C6_ScenarioOutcome ==
    RunEnded =>
        /\ Cardinality({t \in queue : IsDetail(t)}) = 2
        /\ \E t \in queue : IsListing(t) /\ t.page = 2 /\ t.key \in handled
        /\ \A t \in queue : IsListing(t) => t.page <= 2

\* C10: no Record in the dataset has an id that fails the validity rule.
C10_NoInvalidRecord ==
    \A r \in BagToSet(dataset) : isValidNsrNumber(r.nsrNo)

\* How the receiving server reads a urlencoded body: the parts between "&",
\* each split at its first "=", with every %XY replaced by the character of
\* code XY.
RECURSIVE SplitOn(_, _)
SplitOn(str, c) ==
    LET idx == {i \in 1..Len(str) : str[i] = c}
        first == CHOOSE i \in idx : \A j \in idx : i <= j
    IN  IF idx = {} THEN <<str>>
        ELSE <<SubSeq(str, 1, first - 1)>> \o SplitOn(SubSeq(str, first + 1, Len(str)), c)

RECURSIVE PercentDecode(_)
PercentDecode(str) ==
    IF str = <<>> THEN <<>>
    ELSE IF str[1] = "%" /\ Len(str) >= 3
         THEN <<Ascii[16 * DigitVal(LowerChar(str[2])) + DigitVal(LowerChar(str[3])) - AsciiBase]>>
              \o PercentDecode(SubSeq(str, 4, Len(str)))
         ELSE <<str[1]>> \o PercentDecode(Tail(str))

FormDecode(payload) ==
    LET parts == SplitOn(payload, "&")
        Pair(part) ==
            LET idx == {i \in 1..Len(part) : part[i] = "="}
                first == CHOOSE i \in idx : \A j \in idx : i <= j
            IN  IF idx = {} THEN <<PercentDecode(part), <<>>>>
                ELSE <<PercentDecode(SubSeq(part, 1, first - 1)),
                       PercentDecode(SubSeq(part, first + 1, Len(part)))>>
    IN  IF payload = <<>> THEN <<>> ELSE [i \in 1..Len(parts) |-> Pair(parts[i])]

Range(f) == {f[i] : i \in DOMAIN f}

\* the tasks added by the handler begun last
MadeByLatest == {t \in queue : t.by = latest.task.key}

\* C7: handling a FORM task adds exactly one task: the LISTING task of page 1 of
\* the target, a POST with key SEARCH-<target>-1, whose body, read back as a
\* form submission, holds every field captured from the form with the value
\* captured, except that state_ForSearch is there once, with the target's id.
C7_FormCreatesFirstListing ==
    latest.task.label = "SEARCH_FORM" =>
        /\ Cardinality(MadeByLatest) = 1
        /\ \A t \in MadeByLatest :
            LET sent == FormDecode(t.payload)
                captured == extractFormFields(latest.doc)
            IN  /\ t.label = "SEARCH" /\ t.page = 1 /\ t.method = "POST"
                /\ t.key = SearchKey(latest.task.stateId, 1)
                /\ t.stateId = latest.task.stateId
                /\ \A f \in Range(captured) : f[1] # Str(FilterParam) => f \in Range(sent)
                /\ \A f \in Range(sent) :
                      f[1] # Str(FilterParam) => f \in Range(captured)
                /\ Cardinality({i \in DOMAIN sent : sent[i][1] = Str(FilterParam)}) = 1
                /\ \A f \in Range(sent) :
                      f[1] = Str(FilterParam) => f[2] = NatToStr(latest.task.stateId)

\* C7 witness: a FORM task of target 4 was handled on a form that preselects
\* another filter value and holds a hidden field, and its LISTING task exists.
C7_Witness ==
    /\ latest.task.label = "SEARCH_FORM"
    /\ latest.task.stateId = 4
    /\ ObjectHas(extractFormFields(latest.doc), Str(FilterParam))
    /\ ObjectGet(extractFormFields(latest.doc), Str(FilterParam)) = Str("9")
    /\ ObjectHas(extractFormFields(latest.doc), Str("token"))
    /\ \E t \in MadeByLatest : <<Str("token"), Str("abc")>> \in Range(FormDecode(t.payload))

\* a LISTING task whose document has been parsed: its handler is past
\* parseListingPage or has returned
Parsed(u) == u.key \in handled \/ \E r \in running : r.task.key = u.key

\* a LISTING task of a page after the first has the task of the page before
\* it, of the same target, parsed
FollowsParsedPage(t) ==
    \E u \in queue : IsListing(u) /\ u.stateId = t.stateId /\ u.page = t.page - 1 /\ Parsed(u)

ValidRows(doc) ==
    {i \in 1..Len(doc.rows) :
        /\ ~doc.rows[i].heading
        /\ Len(doc.rows[i].cells) >= MinListingCells
        /\ isValidNsrNumber(cleanText(doc.rows[i].cells[1]))}

InvalidIdRows(doc) ==
    {i \in 1..Len(doc.rows) :
        /\ ~doc.rows[i].heading
        /\ Len(doc.rows[i].cells) >= MinListingCells
        /\ ~isValidNsrNumber(cleanText(doc.rows[i].cells[1]))}

\* C9: every DETAIL task carries a valid id; and a row with an invalid id gives
\* no stub while every valid row of the same document gives one.
C9_DetailIdsValid ==
    /\ \A t \in queue : IsDetail(t) => isValidNsrNumber(t.nsrNo)
    /\ \A r \in running :
          LET stubs == parseListingPage(r.doc)
          IN  /\ \A i \in ValidRows(r.doc) :
                    \E k \in DOMAIN stubs : stubs[k].nsrNo = cleanText(r.doc.rows[i].cells[1])
              /\ \A i \in InvalidIdRows(r.doc) :
                    \A k \in DOMAIN stubs : stubs[k].nsrNo # cleanText(r.doc.rows[i].cells[1])

\* C9 witness: a handler has gone through a document with an invalid row before
\* a valid one; the valid row has its DETAIL task, the invalid row has none.
C9_Witness ==
    \E r \in running :
        /\ r.todo = <<>>
        /\ InvalidIdRows(r.doc) # {} /\ ValidRows(r.doc) # {}
        /\ \E i \in InvalidIdRows(r.doc), j \in ValidRows(r.doc) : i < j
        /\ \A j \in ValidRows(r.doc) :
              \E t \in queue : /\ IsDetail(t) /\ t.by = r.task.key
                               /\ t.nsrNo = cleanText(r.doc.rows[j].cells[1])
        /\ \A i \in InvalidIdRows(r.doc) :
              \A t \in queue : IsDetail(t) => t.nsrNo # cleanText(r.doc.rows[i].cells[1])

\* C11: the Record made from a DETAIL task carries the id of the task:
\* parseProfilePage(document, id) returns a Record whose nsrNo is id.
C11_RecordKeepsTaskId ==
    latest.task.label = "PROFILE" =>
        parseProfilePage(latest.doc, latest.task.nsrNo).nsrNo = latest.task.nsrNo

-----------------------------------------------------------------------------
(* The parsers and normalizers called on their own: one call of one        *)
(* function on one argument.                                               *)

\* every string over an alphabet up to a length
StringsUpTo(alphabet, n) == UNION {[1..k -> alphabet] : k \in 0..n}

MaxIdLen == 7

IdAlphabet == {"1", "N", " "}

IdInputs ==
    StringsUpTo(IdAlphabet, MaxIdLen)
        \cup {null, Str("12345"), Str("123456"), Str("NSR 004821"), Str("NSR-12a3456")}

CallIsValidNsrNumber ==
    /\ fn = "isValidNsrNumber"
    /\ ~called
    /\ out' = isValidNsrNumber(arg)
    /\ called' = TRUE
    /\ UNCHANGED <<pgVars, crawlVars, fn, arg>>

\* C12: isValidNsrNumber is true exactly of the ids holding six decimal digits
\* or more, whatever stands between them; the empty and the absent id are
\* invalid.
C12_ValidIffSixDigits ==
    (called /\ fn = "isValidNsrNumber") =>
        out = (arg # null /\ Cardinality({i \in 1..Len(arg) : arg[i] \in Digits}) >= 6)

C12_Witness ==
    /\ called
    /\ fn = "isValidNsrNumber"
    /\ arg = Str("NSR 004821")
    /\ out = TRUE

MaxRows == 4

rowHeadingId == [ListingRow(idA, "Ali", FALSE, NoHref) EXCEPT !.heading = TRUE]

RowPool == {rowHeading, rowHeadingId, rowA, rowAPlain, rowB, rowInvalid, rowNarrow}

ListingInputs ==
    {ListingDoc(rows, <<>>, noRecords) :
        rows \in UNION {[1..k -> RowPool] : k \in 0..MaxRows}, noRecords \in BOOLEAN}

CallParseListingPage ==
    /\ fn = "parseListingPage"
    /\ ~called
    /\ out' = parseListingPage(arg)
    /\ called' = TRUE
    /\ UNCHANGED <<pgVars, crawlVars, fn, arg>>

CallHasResults ==
    /\ fn = "hasResults"
    /\ ~called
    /\ out' = hasResults(arg)
    /\ called' = TRUE
    /\ UNCHANGED <<pgVars, crawlVars, fn, arg>>

\* the rows of the claim: no heading tag, six cells or more, six digits or more
\* in the first cell
QualifyingRows(rows) ==
    {i \in 1..Len(rows) :
        /\ ~rows[i].heading
        /\ Len(rows[i].cells) >= 6
        /\ Cardinality({k \in 1..Len(rows[i].cells[1]) : rows[i].cells[1][k] \in Digits}) >= 6}

\* C13: parseListingPage returns one stub for each row that has no heading tag,
\* at least 6 cells and a valid id in its first cell, in the order of the rows,
\* and nothing for any other row.
C13_OneStubPerQualifyingRow ==
    (called /\ fn = "parseListingPage") =>
        LET q == QualifyingRows(arg.rows)
            Nth(k) == CHOOSE i \in q : Cardinality({j \in q : j <= i}) = k
        IN  /\ Len(out) = Cardinality(q)
            /\ \A k \in 1..Len(out) :
                   /\ out[k].nsrNo = Trim(arg.rows[Nth(k)].cells[1])
                   /\ out[k].name = Trim(arg.rows[Nth(k)].cells[3])

\* a heading row and three valid rows give three stubs in row order
C13_Witness ==
    /\ called
    /\ fn = "parseListingPage"
    /\ arg.rows = <<rowHeading, rowA, rowB, rowAPlain>>
    /\ Len(out) = 3
    /\ out[1].nsrNo = idA /\ out[2].nsrNo = idB /\ out[3].nsrNo = idA

\* C15: hasResults is true exactly when the table body holds a row without the
\* heading tag; without such a row it is false with and without the "no
\* records" phrase.
C15_ResultsIffBodyRow ==
    (called /\ fn = "hasResults") =>
        out = ({i \in 1..Len(arg.rows) : ~arg.rows[i].heading} # {})

\* heading rows only and no phrase: no results
C15_Witness ==
    /\ called
    /\ fn = "hasResults"
    /\ arg.rows = <<rowHeading>>
    /\ ~arg.noRecords
    /\ out = FALSE

\* C31: whenever parseListingPage returns a stub for a document, hasResults
\* is true of that document, so the early return of the listing handler on
\* "no results" discards no stub.
C31_StubsImplyResults ==
    (called /\ fn = "parseListingPage" /\ out # <<>>) => hasResults(arg)

\* a document with a heading row and a valid row: one stub, and results
C31_Witness ==
    /\ called
    /\ fn = "parseListingPage"
    /\ arg.rows = <<rowHeadingId, rowA>>
    /\ Len(out) = 1
    /\ hasResults(arg)

\* the converse fails: a page with results, its only row holding an invalid
\* id, gives no stub
ResultsWithoutStub ==
    /\ called
    /\ fn = "parseListingPage"
    /\ arg.rows = <<rowInvalid>>
    /\ hasResults(arg)
    /\ out = <<>>

MaxProfileRows == 3

ProfileRowPool ==
    { <<Str("NSR No"), idShort>>, <<Str("NSR No"), <<>>>>, <<Str("Name"), Str("Ali")>>,
      <<Str("Gender"), Str("Male")>>, <<Str("Gender"), Str(" FEMALE ")>>,
      <<Str("Gender"), Str("Lelaki")>>, <<Str("Gender"), <<>>>>,
      <<Str("Address"), Str("Ipoh, Perak")>> }

ProfileInputs ==
    {[doc |-> ProfileDoc(<<PersonalData(rows)>>, <<>>), nsrNo |-> id] :
        rows \in UNION {[1..k -> ProfileRowPool] : k \in 0..MaxProfileRows}, id \in {idA, idB}}

CallParseProfilePage ==
    /\ fn = "parseProfilePage"
    /\ ~called
    /\ out' = parseProfilePage(arg.doc, arg.nsrNo)
    /\ called' = TRUE
    /\ UNCHANGED <<pgVars, crawlVars, fn, arg>>

\* ^\d{6,}$
IsDigitString(id) == Len(id) >= 6 /\ \A i \in 1..Len(id) : id[i] \in Digits

\* C14: the nsrNo of every stub parseListingPage returns and of every Record
\* parseProfilePage returns is made of decimal digits only, six or more.
C14_IdsAreDigitStrings ==
    called =>
        /\ fn = "parseListingPage" => \A k \in 1..Len(out) : IsDigitString(out[k].nsrNo)
        /\ fn = "parseProfilePage" => IsDigitString(out.nsrNo)

MaxWordGap == 2

UpperChar(c) ==
    IF \E i \in 1..Len(LowerLetters) : LowerLetters[i] = c
    THEN UpperLetters[CHOOSE i \in 1..Len(LowerLetters) : LowerLetters[i] = c]
    ELSE c

\* a region name as an address may write it: lower case, upper case or
\* capitalised words
InLetterCase(word, form) ==
    CASE form = "lower" -> word
      [] form = "upper" -> [i \in 1..Len(word) |-> UpperChar(word[i])]
      [] form = "title" -> [i \in 1..Len(word) |-> IF i = 1 THEN UpperChar(word[i]) ELSE word[i]]

RECURSIVE JoinWords(_, _, _)
JoinWords(words, gap, form) ==
    IF Len(words) = 1 THEN InLetterCase(Str(words[1]), form)
    ELSE InLetterCase(Str(words[1]), form) \o gap \o JoinWords(Tail(words), gap, form)

WordGaps == {[i \in 1..n |-> " "] : n \in 1..MaxWordGap} \cup {<<"\n">>}

RegionNameTexts ==
    {JoinWords(StatePatternNames[a], gap, form) :
        a \in DOMAIN StatePatternNames, gap \in WordGaps, form \in {"lower", "upper", "title"}}

addrReadme ==
    Str("Hospital Sultanah Aminah, Jalan Persiaran Abu Bakar Sultan, 80100 Johor Bahru, Johor")
addrJohorBahru == Str("12 Jalan Tun, Johor Bahru, Johor 80100")

AddressInputs ==
    {pre \o name \o suf :
        pre \in {<<>>, Str("Jalan 1, Ipoh, "), Str("x")},
        name \in RegionNameTexts,
        suf \in {<<>>, Str(" 80100"), Str("s")}}
    \cup {null, <<>>, Str("Jalan 1, Ipoh"), Str("Jalan 1, Ipoh, 30000"), Str("Ipoh"),
          addrReadme, addrJohorBahru}

\* addresses whose second-to-last part holds a region name: alone, inside a
\* longer word, beside other words, before a postal code, and with a run of
\* digits inside it or a separator in its gap
CityInputs ==
    {pre \o name \o suf \o Str(", Perak") :
        pre \in {<<>>, Str("x"), Str("Bandar "), Str("Jalan 1,")},
        name \in RegionNameTexts,
        suf \in {<<>>, Str("s"), Str(" 80100"), Str(" Baru")}}
    \cup {Str("Jalan 5, 123456 Ipoh 30000, Perak"), Str("Joh12345or, Perak"),
          Str("Jo1234hor, Perak"), Str("1234, Ipoh, Perak"), Str("12345, Ipoh"),
          Str(",,Ipoh,\n,Perak"), Str(" , Perak"), Str("Ipoh\nPerak"), Str("Ipoh, 30000"),
          Str("Ipoh , \n"), Str("Perak, Ipoh, Perak"), Str("a,b,c,d")}

CallExtractStateFromAddress ==
    /\ fn = "extractStateFromAddress"
    /\ ~called
    /\ out' = extractStateFromAddress(arg)
    /\ called' = TRUE
    /\ UNCHANGED <<pgVars, crawlVars, fn, arg>>

CallExtractCityFromAddress ==
    /\ fn = "extractCityFromAddress"
    /\ ~called
    /\ out' = extractCityFromAddress(arg)
    /\ called' = TRUE
    /\ UNCHANGED <<pgVars, crawlVars, fn, arg>>

\* C16: for the address ending "Johor Bahru, Johor 80100" and for the README
\* sample address ending "80100 Johor Bahru, Johor", address parsing gives the
\* region name "Johor", the category "regular" and the city "Johor Bahru".
C16_JohorBahruAddress ==
    /\ (called /\ fn = "extractStateFromAddress" /\ arg \in {addrReadme, addrJohorBahru}) =>
           out.stateName = Str("Johor") /\ out.stateCategory = Str("regular")
    /\ (called /\ fn = "extractCityFromAddress" /\ arg \in {addrReadme, addrJohorBahru}) =>
           out = Str("Johor Bahru")

\* the real regions, as against the two special entries of the table
RegionIds == {id \in StateIds : MALAYSIAN_STATES[id].category # "special"}

\* a name standing as a word in a text
HasWord(text, name) ==
    \E i \in 1..Len(text) :
        /\ i + Len(name) - 1 <= Len(text)
        /\ SubSeq(text, i, i + Len(name) - 1) = name
        /\ i = 1 \/ ~IsWordChar(text[i - 1])
        /\ i + Len(name) > Len(text) \/ ~IsWordChar(text[i + Len(name)])

\* the regions an address names: in any letter case and with any whitespace
\* between the words of the name or alias
RegionsNamed(address) ==
    LET text == ToLower(CollapseWs(address))
    IN  {id \in RegionIds :
            \/ HasWord(text, Str(MALAYSIAN_STATES[id].name))
            \/ \E a \in MALAYSIAN_STATES[id].aliases : HasWord(text, Str(a))}

CanonicalState(id) ==
    [stateId |-> id, stateName |-> Str(MALAYSIAN_STATES[id].displayName),
     stateCategory |-> Str(MALAYSIAN_STATES[id].category)]

\* C17: extractStateFromAddress gives the canonical id, display name and
\* category of a region the address names, in any letter case and with any
\* whitespace between the words of its name, aliases included; for an empty
\* address and for one naming no region it gives 9999, "Missing", "special".
C17_RegionOfAddress ==
    (called /\ fn = "extractStateFromAddress") =>
        IF ~Truthy(arg) \/ RegionsNamed(arg) = {}
        THEN out = [stateId |-> 9999, stateName |-> Str("Missing"),
                    stateCategory |-> Str("special")]
        ELSE \E id \in RegionsNamed(arg) : out = CanonicalState(id)
MaxControls == 2

ControlPool ==
    { Input(Str("q"), Str("text"), Str("x"), FALSE),
      Input(Str("q"), null, Str("y"), FALSE),
      Input(Str("token"), Str("hidden"), Str("abc"), FALSE),
      Input(Str("token"), Str("hidden"), null, FALSE),
      Input(null, Str("hidden"), Str("z"), FALSE),
      Input(Str("agree"), Str("checkbox"), null, TRUE),
      Input(Str("agree"), Str("checkbox"), Str("yes"), FALSE),
      Input(Str("sector"), Str("radio"), Str("1"), TRUE),
      Input(Str("buttonSearch"), Str("submit"), Str("Show"), FALSE),
      Select(Str(FilterParam), FALSE,
             <<Option(Str("1"), Str("Johor"), FALSE), Option(Str("9"), Str("Pulau Pinang"), TRUE)>>),
      Select(Str(FilterParam), FALSE,
             <<Option(Str("1"), Str("Johor"), FALSE), Option(Str("9"), Str("Pulau Pinang"), FALSE)>>),
      Select(Str("field"), FALSE, <<Option(<<>>, Str("All"), TRUE), Option(Str("7"), Str("Surgery"), FALSE)>>),
      Select(null, FALSE, <<Option(Str("1"), Str("Johor"), TRUE)>>) }

FormInputs == {FormDoc(controls) : controls \in UNION {[1..k -> ControlPool] : k \in 0..MaxControls}}

CallExtractFormFields ==
    /\ fn = "extractFormFields"
    /\ ~called
    /\ out' = extractFormFields(arg)
    /\ called' = TRUE
    /\ UNCHANGED <<pgVars, crawlVars, fn, arg>>

\* The reference mapping: which controls give a field, and its value.  An input
\* without a type attribute is a text input.
RefKind(c) ==
    IF c.tag = "select" THEN "select"
    ELSE IF c.type = null \/ c.type \in {Str("text"), Str("hidden")} THEN "text"
    ELSE IF c.type \in {Str("checkbox"), Str("radio")} THEN "check"
    ELSE "other"

RefGivesField(c) ==
    /\ Truthy(c.name)
    /\ \/ RefKind(c) \in {"text", "select"}
       \/ RefKind(c) = "check" /\ c.checked

RefValue(c) ==
    LET marked == {i \in 1..Len(c.options) : c.options[i].selected}
        chosen == IF marked = {} THEN 1 ELSE CHOOSE i \in marked : \A j \in marked : i <= j
    IN  CASE RefKind(c) = "text" -> IF c.value = null THEN <<>> ELSE c.value
          [] RefKind(c) = "select" -> IF c.options = <<>> THEN <<>> ELSE c.options[chosen].value
          [] RefKind(c) = "check" -> IF c.value = null THEN Str("on") ELSE c.value

\* the pairs of the reference mapping: of the controls of one name the last
\* decides
RefFormFields(doc) ==
    LET fields == {i \in 1..Len(doc.controls) : RefGivesField(doc.controls[i])}
    IN  {<<doc.controls[i].name, RefValue(doc.controls[i])>> :
            i \in {i \in fields : \A j \in fields :
                                     doc.controls[j].name = doc.controls[i].name => j <= i}}

\* C18: extractFormFields is the reference mapping on every form document: a
\* named text or hidden input gives its value attribute or "", a named select
\* its selected option's value or else its first option's, a named checkbox or
\* radio its value or "on" and only when checked, a control without a name
\* nothing.
C18_FormFieldsAreReference ==
    (called /\ fn = "extractFormFields") =>
        {<<out[i][1], out[i][2]>> : i \in 1..Len(out)} = RefFormFields(arg)
\* C19: the gender of every Record in the dataset is "Male", "Female" or null.
C19_GenderCanonical ==
    \A r \in BagToSet(dataset) : r.gender \in {Str("Male"), Str("Female"), null}
MaxQualLen == 5

QualAlphabet == {"M", "d", " ", "(", ")", ","}

qualSample == Str("MBBS (Malaya); Fellowship Training\nM.Med. (UKM)")

QualificationInputs ==
    StringsUpTo(QualAlphabet, MaxQualLen)
        \cup {null, qualSample, Str("MBBS (Malaya)"), Str("Fellowship Training"),
              Str("mbbs (Malaya)"), Str("MD-PhD (UM);;FRCS 2 (Edin)")}

CallParseQualifications ==
    /\ fn = "parseQualifications"
    /\ ~called
    /\ out' = parseQualifications(arg)
    /\ called' = TRUE
    /\ UNCHANGED <<pgVars, crawlVars, fn, arg>>

\* The segments of a text: the stretches between commas, semicolons and
\* newlines, trimmed, the empty ones left out, as <<start, text>>.
SegmentsOf(text) ==
    LET IsSep(i) == text[i] \in {",", ";", "\n"}
        runs == {r \in (1..Len(text)) \X (1..Len(text)) :
                    /\ r[1] <= r[2]
                    /\ \A i \in r[1]..r[2] : ~IsSep(i)
                    /\ r[1] = 1 \/ IsSep(r[1] - 1)
                    /\ r[2] = Len(text) \/ IsSep(r[2] + 1)}
    IN  {<<r[1], Trim(SubSeq(text, r[1], r[2]))>> : r \in {x \in runs : Trim(SubSeq(text, x[1], x[2])) # <<>>}}

\* the k-th segment in the order of the text
NthSegment(text, k) ==
    LET segs == SegmentsOf(text)
    IN  (CHOOSE g \in segs : Cardinality({h \in segs : h[1] <= g[1]}) = k)[2]

\* a segment of the shape "<degree> (<awarding body>)": some text, a
\* parenthesis that closes at the end of the segment, some text inside it
HasParenthesisShape(seg, p) ==
    /\ p \in 2..(Len(seg) - 2)
    /\ seg[p] = "("
    /\ seg[Len(seg)] = ")"
    /\ \A i \in 1..(Len(seg) - 1) : i # p => seg[i] \notin {"(", ")"}
    /\ Trim(SubSeq(seg, 1, p - 1)) # <<>>

\* the shape PATTERNS.qualification accepts: an upper-case letter, then letters,
\* whitespace and dots, at least one; a parenthesis; inside it at least one
\* character and no closing parenthesis; the closing parenthesis at the end
HasQualificationShape(seg, p) ==
    /\ p \in 3..(Len(seg) - 2)
    /\ seg[p] = "("
    /\ seg[Len(seg)] = ")"
    /\ \E i \in 1..Len(UpperLetters) : UpperLetters[i] = seg[1]
    /\ \A i \in 2..(p - 1) :
          \/ IsWs(seg[i]) \/ seg[i] = "."
          \/ \E l \in 1..Len(UpperLetters) : seg[i] \in {UpperLetters[l], LowerLetters[l]}
    /\ \A i \in (p + 1)..(Len(seg) - 1) : seg[i] # ")"

\* the entry the claim gives for a segment; Shape is the matching meant
ExpectedEntry(seg, Shape(_, _)) ==
    IF \E p \in 1..Len(seg) : Shape(seg, p)
    THEN LET p == CHOOSE q \in 1..Len(seg) : Shape(seg, q)
         IN  [degree |-> Trim(SubSeq(seg, 1, p - 1)),
              awardingBody |-> Trim(SubSeq(seg, p + 1, Len(seg) - 1))]
    ELSE [degree |-> seg, awardingBody |-> null]

EntriesAsExpected(Shape(_, _)) ==
    (called /\ fn = "parseQualifications") =>
        IF ~Truthy(arg) THEN out = <<>>
        ELSE /\ Len(out) = Cardinality(SegmentsOf(arg))
             /\ \A k \in 1..Len(out) : out[k] = ExpectedEntry(NthSegment(arg, k), Shape)

-----------------------------------------------------------------------------
(* The start requests of a run, as a function of the input *)

MaxStates == 2

\* names a caller may put in the states input
StateNamePool == {"Melaka", "penang", "Pulau Pinang", "Foreign", "missing", "atlantis"}

StartInputs ==
    [variant : {"formPost", "stateFiltered"}, states : StringsUpTo(StateNamePool, MaxStates)]

\* the urls array, handed to crawler.run(urls)
CallStartRequests ==
    /\ fn = "startRequests"
    /\ ~called
    /\ out' = AddAll({}, StartRequests(arg.variant, arg.states))
    /\ called' = TRUE
    /\ UNCHANGED <<pgVars, crawlVars, fn, arg>>

\* the start tasks of target id
StartTasksOf(id) == {t \in out : t.stateId = id}

\* states names target id: by its name or an alias, in any letter case
NamesTarget(states, id) ==
    \E i \in 1..Len(states) :
        \/ ToLower(Str(states[i])) = Str(MALAYSIAN_STATES[id].name)
        \/ \E a \in MALAYSIAN_STATES[id].aliases : ToLower(Str(states[i])) = Str(a)

\* C21: with an empty states list no start task is created for a target of
\* category special (ids 20 and 9999) and exactly one for every other target;
\* a special target has a start task only when the states list names it.
C21_StartTasksPerTarget ==
    (fn = "startRequests" /\ called) =>
        /\ arg.states = <<>> =>
               \A id \in StateIds :
                   Cardinality(StartTasksOf(id)) =
                       IF MALAYSIAN_STATES[id].category = "special" THEN 0 ELSE 1
        /\ \A id \in StateIds :
               (MALAYSIAN_STATES[id].category = "special" /\ StartTasksOf(id) # {})
                   => NamesTarget(arg.states, id)

\* the empty list has produced the sixteen start tasks of the ordinary targets
C21_Witness ==
    /\ fn = "startRequests"
    /\ called
    /\ arg.states = <<>>
    /\ Cardinality(out) = Cardinality(StateIds) - 2
    /\ \A t \in out : MALAYSIAN_STATES[t.stateId].category # "special"

-----------------------------------------------------------------------------
(* api/server.js: the REST API.  A request is [apiKey, validApiKey,        *)
(* limited, db]: its X-API-Key header and the API_KEY variable of the       *)
(* server, null when not set, whether the address has used up its rate      *)
(* window, and how the database answers: "up", with an "error" in its      *)
(* reply, or the query "throws".  A response is [status, body].            *)

Response(status, body) == [status |-> status, body |-> body]

\* next(): the request goes on to the following middleware
Passed == Response(0, "next")

\* the rate limiter mounted on /api
limiter(req) ==
    IF req.limited THEN Response(429, "Too many requests") ELSE Passed

authenticateApiKey(req) ==
    IF ~Truthy(req.apiKey) THEN Response(401, "Unauthorized")
    ELSE IF ~Truthy(req.validApiKey) THEN Passed
    ELSE IF req.apiKey # req.validApiKey THEN Response(403, "Forbidden")
    ELSE Passed

\* app.get('/api/health')
getHealth(req) ==
    IF req.db = "throws" THEN Response(503, "error") ELSE Response(200, "ok")

\* the chain of /api/health: app.use('/api', limiter), app.use('/api',
\* authenticateApiKey), then the route
ServeHealth(req) ==
    IF limiter(req) # Passed THEN limiter(req)
    ELSE IF authenticateApiKey(req) # Passed THEN authenticateApiKey(req)
    ELSE getHealth(req)

ApiKeys == {null, Str("k1"), Str("k2")}

HealthInputs ==
    [apiKey : ApiKeys, validApiKey : {null, Str("k1")}, limited : BOOLEAN,
     db : {"up", "error", "throws"}]

CallServeHealth ==
    /\ fn = "GET /api/health"
    /\ ~called
    /\ out' = ServeHealth(arg)
    /\ called' = TRUE
    /\ UNCHANGED <<pgVars, crawlVars, fn, arg>>

\* C23: a health check that carries no X-API-Key header (the curl of the
\* setup guide), from an address within its rate window and with the
\* database answering, is answered 200 with status "ok".
C23_HealthCheckNeedsNoKey ==
    (fn = "GET /api/health" /\ called /\ arg.apiKey = null /\ ~arg.limited /\ arg.db # "throws")
        => out = Response(200, "ok")

-----------------------------------------------------------------------------
(* api/webhook.js and src/export-to-db.js: the export webhook.  A call is   *)
(* [eventType, resource, configured, token, fetchOk, items, write, count]:  *)
(* the two fields of the payload (eventType "" when missing, resource       *)
(* [present, status]), whether SUPABASE_URL and SUPABASE_KEY and whether    *)
(* the Apify token are set, whether the dataset can be fetched and how many *)
(* items it holds (each with an id), and whether the database reports an    *)
(* "error" for an upsert and for the count query.  A reply is [status,     *)
(* text, fetched, written]: the HTTP status, the message or the success     *)
(* field, whether the dataset was fetched and the rows written.             *)

MaxItems == 2

Reply(status, text, fetched, written) ==
    [status |-> status, text |-> text, fetched |-> fetched, written |-> written]

\* exportDatasetToSupabase: the statistics [errors, written].  A batch whose
\* upsert reports an error is counted and retried item by item; the item
\* upserts report their error in the value they return, nothing is thrown,
\* and every item is taken off the error count again.
exportDatasetToSupabase(req) ==
    IF req.items = 0 THEN [errors |-> 0, written |-> 0]
    ELSE IF req.write = "ok" THEN [errors |-> 0, written |-> req.items]
    ELSE [errors |-> req.items - req.items, written |-> 0]

\* validateExport: [threw, withinThreshold], the threshold being the larger
\* of 10 rows and 1% of the expected count
validateExport(req, actual) ==
    IF req.count = "error" THEN [threw |-> TRUE, withinThreshold |-> FALSE]
    ELSE LET difference == IF actual > req.items THEN actual - req.items ELSE req.items - actual
             threshold100 == IF req.items > 1000 THEN req.items ELSE 1000
         IN  [threw |-> FALSE, withinThreshold |-> difference * 100 <= threshold100]

\* the export of router.post('/'), lines 43-143 and the catch
RunExport(req) ==
    IF ~req.configured \/ ~req.token THEN Reply(500, "success: false", FALSE, 0)
    ELSE IF ~req.fetchOk THEN Reply(500, "success: false", FALSE, 0)
    ELSE IF validateExport(req, exportDatasetToSupabase(req).written).threw
    THEN Reply(500, "success: false", TRUE, exportDatasetToSupabase(req).written)
    ELSE Reply(200, "success: true", TRUE, exportDatasetToSupabase(req).written)

\* router.post('/')
WebhookPost(req) ==
    IF req.eventType = "" \/ ~req.resource.present
    THEN Reply(400, "Invalid webhook payload", FALSE, 0)
    ELSE IF req.eventType # "ACTOR.RUN.SUCCEEDED" \/ req.resource.status # "SUCCEEDED"
    THEN Reply(200, "Event ignored", FALSE, 0)
    ELSE RunExport(req)

WebhookInputs ==
    [eventType : {"", "ACTOR.RUN.SUCCEEDED", "ACTOR.RUN.FAILED"},
     resource : {[present |-> FALSE, status |-> ""],
                 [present |-> TRUE, status |-> "SUCCEEDED"],
                 [present |-> TRUE, status |-> "FAILED"]},
     configured : BOOLEAN, token : BOOLEAN, fetchOk : BOOLEAN,
     items : 0..MaxItems, write : {"ok", "error"}, count : {"ok", "error"}]

CallWebhookPost ==
    /\ fn = "POST /api/webhook"
    /\ ~called
    /\ out' = WebhookPost(arg)
    /\ called' = TRUE
    /\ UNCHANGED <<pgVars, crawlVars, fn, arg>>

\* the payload of a run that succeeded
AsksForExport(req) ==
    /\ req.eventType = "ACTOR.RUN.SUCCEEDED"
    /\ req.resource.present
    /\ req.resource.status = "SUCCEEDED"

\* something goes wrong during the export
ExportFails(req) ==
    \/ ~req.configured
    \/ ~req.token
    \/ ~req.fetchOk
    \/ req.items > 0 /\ req.write = "error"
    \/ req.count = "error"

\* C24: the webhook starts an export only for eventType ACTOR.RUN.SUCCEEDED
\* with resource.status SUCCEEDED; a payload missing eventType or resource is
\* answered 400 and any other event 200 "Event ignored", both without
\* fetching the dataset or writing to the database; an export in which
\* anything fails is answered 500 with success false.
C24_WebhookReplies ==
    (fn = "POST /api/webhook" /\ called) =>
        /\ (out.fetched \/ out.written > 0) => AsksForExport(arg)
        /\ (arg.eventType = "" \/ ~arg.resource.present)
               => out = Reply(400, "Invalid webhook payload", FALSE, 0)
        /\ (arg.eventType # "" /\ arg.resource.present /\ ~AsksForExport(arg))
               => out = Reply(200, "Event ignored", FALSE, 0)
        /\ (AsksForExport(arg) /\ ExportFails(arg))
               => out.status = 500 /\ out.text = "success: false"

InitFunctions ==
    /\ IdlePagination
    /\ variant = "none"
    /\ maxRequestsPerCrawl = 0
    /\ site = "none"
    /\ queue = {}
    /\ running = {}
    /\ handled = {}
    /\ dataset = EmptyBag
    /\ started = 0
    /\ latest = <<>>
    /\ errors = {}
    /\ called = FALSE
    /\ out = <<>>
    /\ \/ fn = "isValidNsrNumber" /\ arg \in IdInputs
       \/ fn = "parseListingPage" /\ arg \in ListingInputs
       \/ fn = "hasResults" /\ arg \in ListingInputs
       \/ fn = "parseProfilePage" /\ arg \in ProfileInputs
       \/ fn = "extractStateFromAddress" /\ arg \in AddressInputs
       \/ fn = "extractCityFromAddress" /\ arg \in AddressInputs \cup CityInputs
       \/ fn = "extractFormFields" /\ arg \in FormInputs
       \/ fn = "parseQualifications" /\ arg \in QualificationInputs
       \/ fn = "startRequests" /\ arg \in StartInputs
       \/ fn = "GET /api/health" /\ arg \in HealthInputs
       \/ fn = "POST /api/webhook" /\ arg \in WebhookInputs

NextFunctions ==
    \/ CallIsValidNsrNumber
    \/ CallParseListingPage
    \/ CallHasResults
    \/ CallParseProfilePage
    \/ CallExtractStateFromAddress
    \/ CallExtractCityFromAddress
    \/ CallExtractFormFields
    \/ CallParseQualifications
    \/ CallStartRequests
    \/ CallServeHealth
    \/ CallWebhookPost

SpecFunctions == InitFunctions /\ [][NextFunctions]_vars

-----------------------------------------------------------------------------
(* The run when requests and handlers fail *)

\* two targets, so that a failure has another target to spare
FaultyStates == <<"Melaka", "Kedah">>

InitFaulty == \E v \in {"formPost", "stateFiltered"} : InitRun(v, "plain", FaultyStates, 0)

\* log.error(message, {url: request.url, ...})
Logged(t, message) == errors \cup {[key |-> t.key, message |-> message]}

\* Mutant (C22): a failed request stops the crawler, the waiting tasks are dropped.
FailRequest_AbortsRun ==
    \E t \in Pending :
        /\ CanStart
        /\ started' = started + 1
        /\ handled' = handled \cup {q.key : q \in queue}
        /\ errors' = Logged(t, "Request failed")
        /\ UNCHANGED <<pgVars, fnVars, variant, maxRequestsPerCrawl, site, queue, running, dataset, latest>>

\* the request of task t fails on every attempt, a 403 included: when the
\* retries are used up the crawler calls failedRequestHandler, which logs
FailRequest ==
    \E t \in Pending :
        /\ CanStart
        /\ started' = started + 1
        /\ handled' = handled \cup {t.key}
        /\ errors' = Logged(t, "Request failed")
        /\ UNCHANGED <<pgVars, fnVars, variant, maxRequestsPerCrawl, site, queue, running, dataset, latest>>

\* a handler throws before its first await has returned: the catch of
\* requestHandler logs the error and the request counts as handled
ThrowOnEntry ==
    \E t \in queue : \E doc \in Served(t) :
        /\ Fetch(t, doc)
        /\ handled' = handled \cup {t.key}
        /\ errors' = Logged(t, "Error processing")
        /\ UNCHANGED <<pgVars, fnVars, variant, maxRequestsPerCrawl, site, queue, running, dataset>>

\* a listing handler throws at an await after the first: the rest of its
\* loop and its pagination step are not run
ThrowInListing ==
    \E r \in running :
        /\ running' = running \ {r}
        /\ handled' = handled \cup {r.task.key}
        /\ errors' = Logged(r.task, "Error processing")
        /\ UNCHANGED <<pgVars, fnVars, variant, maxRequestsPerCrawl, site, queue, dataset, started, latest>>

NextFaulty ==
    \/ FailRequest
    \/ ThrowInListing
    \/ ThrowOnEntry
    \/ HandleSearchForm
    \/ BeginSearchPage
    \/ BeginListPage
    \/ EnqueueProfile
    \/ FinishSearchPage
    \/ FinishListPage
    \/ HandleProfilePage

\* the crawler keeps taking tasks while one is waiting or a handler is suspended
SpecFaulty == InitFaulty /\ [][NextFaulty]_vars /\ WF_vars(NextFaulty)

\* the step that logs the failure of task k: k is finished, nothing else is
FailureStepOf(k) ==
    /\ \E e \in errors' \ errors : e.key = k
    /\ handled' = handled \cup {k}
    /\ queue' = queue
    /\ dataset' = dataset
    /\ running' \subseteq running
    /\ \A r \in running \ running' : r.task.key = k

FailedKeys == {e.key : e \in errors}

\* every queued task is finished, and every DETAIL task that did not fail has
\* stored its record
Completed ==
    /\ running = {}
    /\ \A t \in queue : t.key \in handled
    /\ BagCardinality(dataset) =
           Cardinality({t \in queue : t.label = "PROFILE" /\ t.key \notin FailedKeys})

\* C22: a failure while handling one task (a handler that throws, a request
\* that used up its retries) is logged and confined to that task: the step
\* finishes that task only, removes no task from the queue and stops no other
\* handler; the run goes on to finish every other queued task and completes.
C22_FailureConfined ==
    /\ [][errors' # errors => \E t \in queue : FailureStepOf(t.key)]_vars
    /\ <>[]Completed

\* the form request of one target has failed; the run has completed and the
\* listing of the other target and its DETAIL tasks were handled
C22_Witness ==
    /\ Completed
    /\ \E e \in errors : e.key = FormKey(2) /\ e.message = "Request failed"
    /\ SearchKey(4, 1) \in handled \ FailedKeys
    /\ dataset # EmptyBag

-----------------------------------------------------------------------------
(* Properties of the listing handlers *)

ListingLabels == {"SEARCH", "LIST"}

\* the DETAIL tasks of queue q that address the detail URL of stub
DetailTasksOf(q, stub) == {t \in q : t.label = "PROFILE" /\ t.url = stub.profileUrl}

\* q holds exactly one DETAIL task for the stub, and it carries the stub's id
StubServed(q, stub) ==
    \E t \in DetailTasksOf(q, stub) : DetailTasksOf(q, stub) = {t} /\ t.nsrNo = stub.nsrNo

StubsServed(q, stubs) == \A i \in 1..Len(stubs) : StubServed(q, stubs[i])

\* the handlers that return in this step after their loop over the stubs
Returning == {r \in running \ running' : r.task.key \in handled' \ handled}

-----------------------------------------------------------------------------
(* Properties of the dedup keys *)

\* the text of a key: the template literals SEARCH-FORM-${stateId} and
\* SEARCH-${stateId}-${page}
uniqueKey(key) ==
    IF key.kind = "SEARCH-FORM"
    THEN Str("SEARCH-FORM-") \o NatToStr(key.sid)
    ELSE Str("SEARCH-") \o NatToStr(key.sid) \o Str("-") \o NatToStr(key.page)

MaxKeyPage == 12

\* the keys of the FORM and LISTING tasks of every target, up to a page
BuiltKeys ==
    {FormKey(id) : id \in StateIds}
        \cup {SearchKey(id, page) : id \in StateIds, page \in 1..MaxKeyPage}

KeyTextsDistinct == \A a, b \in BuiltKeys : uniqueKey(a) = uniqueKey(b) => a = b

FormTasks == {t \in queue : t.label = "SEARCH_FORM"}

SearchTasks == {t \in queue : t.label = "SEARCH"}

C27_PageIndexIsUrlPage ==
    \A t \in queue :
        (t.label = "SEARCH" /\ t.by.kind = "SEARCH")
            => /\ HasPageNumber(t.url)
               /\ PageNumber(t.url) = Num(t.page)
               /\ t.url # Producer(t).url

ListingTasks == {t \in queue : IsListing(t)}

\* C30: in the direct-GET variant every LISTING task is a start request, no
\* handler adds one: a state-filtered target has the one listing task of its
\* page 1, and the LISTING tasks of a full crawl are the pages 1..totalPages
\* under the keys PAGE-n.
C30_ListingTasksAreStartRequests ==
    variant # "formPost" =>
        /\ \A t \in ListingTasks : t.by = StartKey
        /\ \A t \in queue : t.by # StartKey => IsDetail(t)
        /\ variant = "stateFiltered" =>
               \A t \in ListingTasks : t.label = "SEARCH" /\ t.key = SearchKey(t.stateId, 1)
        /\ variant = "fullCrawl" =>
               /\ \A t \in ListingTasks : t.label = "LIST" /\ t.key = PageKey(t.page)
               /\ {t.page : t \in ListingTasks} = 1..TotalPages

\* a state-filtered listing page with rows and a Next link in its pagination
\* has been handled: its DETAIL tasks are queued and no second page is
C30_Witness ==
    /\ variant = "stateFiltered"
    /\ latest.task.label = "SEARCH"
    /\ latest.task.key \in handled
    /\ parsePaginationInfo(latest.doc).hasNext
    /\ \E d \in queue : IsDetail(d) /\ d.by = latest.task.key

-----------------------------------------------------------------------------
(* parseProfilePage by steps: the loop over the bordered tables and their   *)
(* rows, then the two fallback passes and the final guard.  The scan is     *)
(* kept in out: the record so far, the section flags, the table and the     *)
(* row reached and the number of rows read so far.                          *)

\* What a document is built of: the tables $('table.table-bordered') gives
\* for a piece of it, the number of tr elements the piece holds and the number
\* of those with exactly three td cells of their own.
ThreeCellRows(t) == Cardinality({i \in 1..Len(t.rows) : Len(t.rows[i]) = 3})

Flat(t) == [tables |-> <<t>>, rowCount |-> Len(t.rows), tripleCount |-> ThreeCellRows(t)]

\* A bordered table with a bordered table inside the last cell of its last
\* row: the selection gives the outer and then the inner table; find('tr') of
\* the outer one gives the rows of the inner one too, and find('td') of the
\* host row its own cells followed by the cells of the inner table.
Nested(outer, hostCells, inner) ==
    [tables |->
        << Table(outer.text,
                 outer.rows
                 \o <<hostCells \o <<TableText(inner)>> \o ConcatAll(inner.rows)>>
                 \o inner.rows),
           inner >>,
     rowCount |-> Len(outer.rows) + 1 + Len(inner.rows),
     tripleCount |-> ThreeCellRows(outer) + (IF Len(hostCells) = 2 THEN 1 ELSE 0)
                     + ThreeCellRows(inner)]

qualificationsHeader == <<Str("Degree/Membership/Fellowship"), Str("Awarding Body"), Str("Year")>>
rowMBBS == <<Str("MBBS"), Str("UM"), Str("1990")>>

tablePersonal ==
    Table(Str("Personal Data"),
          << <<Str("Title"), Str("Dr")>>, <<Str("Name"), Str("Ali")>>,
             <<Str("Address"), Str("Ipoh, Perak")>> >>)

tableClinical ==
    Table(Str("Clinical Practice"),
          << <<Str("Name"), Str("Klinik A")>>, <<Str("Title"), Str("Mr")>>,
             <<Str("Address"), Str("Taiping")>> >>)

tableQualifications ==
    Table(Str("Qualifications"),
          << qualificationsHeader, <<Str("Basic Degree"), <<>>, <<>>>>, rowMBBS,
             <<Str("Name"), Str("Q")>>, <<Str("FRCS"), Str("RCS"), <<>>>>,
             <<<<>>, Str("UM"), Str("1990")>>, <<Str("MMed"), <<>>, Str("2001")>> >>)

\* no heading of its own: the header row makes it a qualifications table
tableDegrees ==
    Table(<<>>,
          << qualificationsHeader, <<Str("Specialist Degree in Surgery"), Str("UKM"), Str("2001")>>,
             <<Str("Awarding Body"), Str("UM"), Str("1999x")>> >>)

tablePlain ==
    Table(<<>>,
          << <<Str("Name"), Str("Bob")>>, <<Str("Title"), Str("Prof")>>,
             <<Str("Other"), Str("zzz")>>, <<Str("x"), Str("Name"), Str("Carl")>>,
             <<Str("Name")>>, <<Str("Address"), <<>>>> >>)

tableAll ==
    Table(Str("Qualifications, Clinical Practice, Personal Data"),
          << <<Str("Name"), Str("Dan")>>, rowMBBS >>)

tableClinicalFirst ==
    Table(Str("Qualifications and Clinical Practice"),
          << <<Str("Name"), Str("Eve")>>, rowMBBS >>)

TablePool ==
    { Flat(tablePersonal), Flat(tableClinical), Flat(tableQualifications),
      Flat(tableDegrees), Flat(tablePlain), Flat(tableAll), Flat(tableClinicalFirst),
      Nested(Table(<<>>, <<>>), <<>>, Table(Str("Qualifications"), <<rowMBBS>>)) }

\* the elements and the definition lists the fallback passes look at
DefinitionList(dt, dd) == [dt |-> dt, dd |-> dd]

FallbackPool ==
    { [nameEls |-> <<>>, specialtyEls |-> <<>>, dls |-> <<>>],
      [nameEls |-> <<Str("Zed")>>, specialtyEls |-> <<Str("Surgery")>>, dls |-> <<>>],
      [nameEls |-> <<>>, specialtyEls |-> <<>>,
       dls |-> << DefinitionList(<<Str("Full Name"), Str("Specialty"), Str("Address"), Str("Gender")>>,
                                 <<Str("Yan"), Str("Cardiology"), Str("Kuching, Sarawak"), Str("Male")>>) >>],
      [nameEls |-> <<Str("Zed")>>, specialtyEls |-> <<>>,
       dls |-> << DefinitionList(<<Str("Name"), Str("Name"), Str("Address")>>,
                                 <<<<>>, Str("Sam"), <<>>>>),
                  DefinitionList(<<Str("Address"), Str("Specialty")>>, <<Str("Miri, Sarawak")>>) >>] }

MaxTables == 2

RECURSIVE TablesOf(_)
TablesOf(pieces) == IF pieces = <<>> THEN <<>> ELSE Head(pieces).tables \o TablesOf(Tail(pieces))

RECURSIVE RowCountOf(_)
RowCountOf(pieces) == IF pieces = <<>> THEN 0 ELSE Head(pieces).rowCount + RowCountOf(Tail(pieces))

RECURSIVE TripleCountOf(_)
TripleCountOf(pieces) ==
    IF pieces = <<>> THEN 0 ELSE Head(pieces).tripleCount + TripleCountOf(Tail(pieces))

ScanInputs ==
    {[doc |-> Doc(<<>>, <<>>, FALSE, <<>>, TablesOf(pieces), f.nameEls, f.specialtyEls, f.dls),
      nsrNo |-> idA, rowCount |-> RowCountOf(pieces), tripleCount |-> TripleCountOf(pieces)] :
        pieces \in UNION {[1..k -> TablePool] : k \in 0..MaxTables}, f \in FallbackPool}

Scan(specialist, section, table, row, read, phase) ==
    [specialist |-> specialist, section |-> section, table |-> table, row |-> row,
     read |-> read, phase |-> phase]

byStepsFn == "parseProfilePage, step by step"

InitProfile ==
    /\ IdlePagination
    /\ variant = "none"
    /\ maxRequestsPerCrawl = 0
    /\ site = "none"
    /\ queue = {}
    /\ running = {}
    /\ handled = {}
    /\ dataset = EmptyBag
    /\ started = 0
    /\ latest = <<>>
    /\ errors = {}
    /\ called = FALSE
    /\ fn = byStepsFn
    /\ arg \in ScanInputs
    /\ out = Scan(EmptySpecialist(arg.nsrNo), NoSection, 0, 0, 0, "tables")

\* the rows of the table the scan is in
RowsHere == IF out.table = 0 THEN <<>> ELSE arg.doc.tables[out.table].rows

\* parser.js:99-116: the next table of the selection, its text looked at
EnterTable ==
    /\ fn = byStepsFn
    /\ out.phase = "tables"
    /\ out.row = Len(RowsHere)
    /\ out.table < Len(arg.doc.tables)
    /\ out' = [out EXCEPT !.table = @ + 1, !.row = 0,
                          !.section = SectionAt(out.section, arg.doc.tables[out.table + 1])]
    /\ UNCHANGED <<pgVars, crawlVars, fn, arg, called>>

\* parser.js:119-179: the next row of the table
ReadRow ==
    /\ fn = byStepsFn
    /\ out.phase = "tables"
    /\ out.row < Len(RowsHere)
    /\ out' = [out EXCEPT !.row = @ + 1, !.read = @ + 1,
                          !.specialist = ProfileRow(out.specialist, out.section,
                                                    RowsHere[out.row + 1], arg.nsrNo)]
    /\ UNCHANGED <<pgVars, crawlVars, fn, arg, called>>

\* parser.js:182-191: the name and specialty elements
LookUpElements ==
    /\ fn = byStepsFn
    /\ out.phase = "tables"
    /\ out.row = Len(RowsHere)
    /\ out.table = Len(arg.doc.tables)
    /\ out' = [out EXCEPT !.phase = "elements",
                          !.specialist = FillSpecialty(FillName(out.specialist, arg.doc), arg.doc)]
    /\ UNCHANGED <<pgVars, crawlVars, fn, arg, called>>

\* parser.js:193-219: the definition lists
ScanLists ==
    /\ fn = byStepsFn
    /\ out.phase = "elements"
    /\ out' = [out EXCEPT !.phase = "lists",
                          !.specialist = ProfileLists(out.specialist, arg.doc.dls, 1)]
    /\ UNCHANGED <<pgVars, crawlVars, fn, arg, called>>

\* parser.js:221-229: the final guard and the return
FinalGuard ==
    /\ fn = byStepsFn
    /\ out.phase = "lists"
    /\ out' = [out EXCEPT !.phase = "returned", !.specialist = FillState(out.specialist)]
    /\ called' = TRUE
    /\ UNCHANGED <<pgVars, crawlVars, fn, arg>>

NextProfile ==
    \/ EnterTable
    \/ ReadRow
    \/ LookUpElements
    \/ ScanLists
    \/ FinalGuard

SpecProfile == InitProfile /\ [][NextProfile]_vars

\* the steps compute what the function computes
StepsAgree ==
    out.phase = "returned" => out.specialist = parseProfilePage(arg.doc, arg.nsrNo)

\* the sections that are active
ActiveSections(section) ==
    {s \in {"personal-data", "clinical-practice", "qualifications"} :
        \/ s = "personal-data" /\ section.inPersonalData
        \/ s = "clinical-practice" /\ section.inClinicalPractice
        \/ s = "qualifications" /\ section.inQualifications}

\* the headings the text of a table holds
HeadingsOf(t) ==
    {s \in {"personal-data", "clinical-practice", "qualifications"} :
        \/ s = "personal-data" /\ Includes(TableText(t), Str("Personal Data"))
        \/ s = "clinical-practice" /\ Includes(TableText(t), Str("Clinical Practice"))
        \/ s = "qualifications"
           /\ \/ Includes(TableText(t), Str("Qualifications"))
              \/ Includes(TableText(t), Str("Degree/Membership/Fellowship"))}

\* of several headings, the one that takes precedence
FirstHeading(hs) ==
    IF "personal-data" \in hs THEN "personal-data"
    ELSE IF "clinical-practice" \in hs THEN "clinical-practice"
    ELSE "qualifications"

\* the section while the t-th table is read: that of its heading, or without
\* one that of the table before; no section before the first table
RECURSIVE SectionIn(_, _)
SectionIn(tables, t) ==
    IF t = 0 THEN {}
    ELSE IF HeadingsOf(tables[t]) # {} THEN {FirstHeading(HeadingsOf(tables[t]))}
    ELSE SectionIn(tables, t - 1)

\* C32: while parseProfilePage scans the tables at most one section is
\* active, none before the first heading; in a table whose text holds a
\* heading the section is that of the heading from before its first row on,
\* personal-data before clinical-practice before qualifications when it holds
\* several; a table without a heading has the section of the table before.
C32_SectionIsOneValue ==
    fn = byStepsFn =>
        /\ Cardinality(ActiveSections(out.section)) <= 1
        /\ ActiveSections(out.section) = SectionIn(arg.doc.tables, out.table)

\* a table with the qualifications and the clinical-practice heading, then a
\* table without heading: its rows are read in the clinical-practice section
C32_Witness ==
    /\ fn = byStepsFn
    /\ arg.doc.tables = <<tableClinicalFirst, tablePlain>>
    /\ out.table = 2
    /\ out.row = 1
    /\ ActiveSections(out.section) = {"clinical-practice"}
    /\ out.specialist.establishment = Str("Bob")

\* a step that reads a row
ReadingRow == fn = byStepsFn /\ out.phase = "tables" /\ out'.read = out.read + 1

\* sp2 is sp with one triple more at the end of both lists, and nothing else
\* changed
Pushed(sp, sp2, degree, awardingBody, year) ==
    sp2 = [sp EXCEPT
             !.qualifications = Append(@, degree \o Str(" (") \o awardingBody
                                          \o Str(", ") \o year \o Str(")")),
             !.qualificationsStructured = Append(@,
                 [degree |-> degree, awardingBody |-> awardingBody, year |-> YearOf(year)])]

\* what the claim says of a three-cell row read in section sec, accepted
\* telling whether its degree and awarding body make it a triple
ThreeCellRule(sp, sp2, sec, cells, nsrNo, accepted) ==
    Len(cells) = 3 =>
        IF sec.inQualifications
        THEN IF accepted
             THEN Pushed(sp, sp2, cleanText(cells[1]), cleanText(cells[2]), cleanText(cells[3]))
             ELSE sp2 = sp
        ELSE sp2 = LabelValueRow(sp, sec, ToLower(cleanText(cells[2])), cleanText(cells[3]), nsrNo)

\* the column headers and the section labels of the qualifications table
QualificationLabels ==
    {Str("degree/membership/fellowship"), Str("awarding body"), Str("year"),
     Str("basic degree"), Str("specialist degree")}

IsQualificationLabel(text) == ToLower(text) \in QualificationLabels

\* a text that is not empty and is no label
AcceptedAsStated(degree, awardingBody) ==
    /\ Truthy(degree) /\ Truthy(awardingBody)
    /\ ~IsQualificationLabel(degree) /\ ~IsQualificationLabel(awardingBody)

\* the degree holds none of the three label texts of its column, the awarding
\* body not that of its own
AcceptedByText(degree, awardingBody) ==
    /\ Truthy(degree) /\ Truthy(awardingBody)
    /\ \A l \in {Str("degree/membership"), Str("basic degree"), Str("specialist degree")} :
           ~Includes(ToLower(degree), l)
    /\ ~Includes(ToLower(awardingBody), Str("awarding body"))

\* C33 as stated: in the qualifications section a three-cell row is pushed as
\* a triple iff its degree and awarding body are not empty and neither is a
\* column header or a section label, and it never goes to the label / value
\* matching; elsewhere a three-cell row is read as a label and a value.
C33_TripleUnlessLabel ==
    [][ReadingRow =>
          ThreeCellRule(out.specialist, out'.specialist, out.section, RowsHere[out.row + 1],
                        arg.nsrNo,
                        AcceptedAsStated(cleanText(RowsHere[out.row + 1][1]),
                                         cleanText(RowsHere[out.row + 1][2])))]_vars

\* What the code does: a row is a triple iff its degree and awarding body are
\* not empty, the degree contains none of "degree/membership", "basic degree"
\* and "specialist degree" and the awarding body does not contain "awarding
\* body", in any letter case.
TripleUnlessLabelText ==
    [][ReadingRow =>
          ThreeCellRule(out.specialist, out'.specialist, out.section, RowsHere[out.row + 1],
                        arg.nsrNo,
                        AcceptedByText(cleanText(RowsHere[out.row + 1][1]),
                                       cleanText(RowsHere[out.row + 1][2])))]_vars

\* the header row and the "Basic Degree" row were passed over, the third row
\* was pushed; then the three-cell row of a table without heading is pushed
\* too, its middle cell "Name" setting no name
HeaderRowsPassedOver ==
    /\ fn = byStepsFn
    /\ arg.doc.tables = <<tableQualifications, tablePlain>>
    /\ out.table = 2
    /\ out.row = 4
    /\ Len(out.specialist.qualificationsStructured) = 3
    /\ out.specialist.qualificationsStructured[1].degree = Str("MBBS")
    /\ out.specialist.qualificationsStructured[3] =
           [degree |-> Str("x"), awardingBody |-> Str("Name"),
            year |-> [kind |-> "NaN", val |-> 0]]
    /\ out.specialist.name = null

\* the year text of a raw string "<degree> (<awarding body>, <year>)"
YearTextOf(raw, entry) ==
    SubSeq(raw, Len(entry.degree) + Len(entry.awardingBody) + 5, Len(raw) - 1)

\* the raw string is built from the degree, the awarding body and a year text
\* that reads as the year of the entry
BuiltFrom(raw, entry) ==
    /\ Len(raw) >= Len(entry.degree) + Len(entry.awardingBody) + 5
    /\ raw = entry.degree \o Str(" (") \o entry.awardingBody \o Str(", ")
                 \o YearTextOf(raw, entry) \o Str(")")
    /\ YearOf(YearTextOf(raw, entry)) = entry.year

ListsParallel(sp) ==
    /\ Len(sp.qualifications) = Len(sp.qualificationsStructured)
    /\ \A i \in 1..Len(sp.qualifications) :
           BuiltFrom(sp.qualifications[i], sp.qualificationsStructured[i])

\* what was listed stays where it is: a list changes by an entry at its end
GrowsAtEnd(old, new) == new = old \/ (Len(new) = Len(old) + 1 /\ SubSeq(new, 1, Len(old)) = old)

C35_EachRowOnce ==
    (fn = byStepsFn /\ out.phase # "tables") =>
        /\ out.read = arg.rowCount
        /\ Len(out.specialist.qualificationsStructured) <= arg.tripleCount

\* without a table inside another one each row is read once
RECURSIVE RowsSelected(_)
RowsSelected(tables) ==
    IF tables = <<>> THEN 0 ELSE Len(Head(tables).rows) + RowsSelected(Tail(tables))

RowsOnceWhenFlat ==
    (fn = byStepsFn /\ out.phase # "tables" /\ RowsSelected(arg.doc.tables) = arg.rowCount) =>
        /\ out.read = arg.rowCount
        /\ Len(out.specialist.qualificationsStructured) <= arg.tripleCount

\* a label that matches no keyword of the label / value matching
Unmatched(label) ==
    /\ label \notin {Str("name"), Str("title")}
    /\ \A k \in {Str("nsr no"), Str("gender"), Str("address"), Str("sector"),
                 Str("renewal"), Str("last renewed")} : ~Includes(label, k)
    /\ ~(Includes(label, Str("field")) /\ Includes(label, Str("practice")))

\* what the claim says of a row read as label and value in a section
NameTitleRule(sp, sp2, sections, label, value) ==
    /\ label = Str("name") =>
           sp2 = IF "personal-data" \in sections THEN [sp EXCEPT !.name = value]
                 ELSE IF "clinical-practice" \in sections
                 THEN [sp EXCEPT !.establishment = value]
                 ELSE sp
    /\ label = Str("title") =>
           sp2 = IF "personal-data" \in sections THEN [sp EXCEPT !.title = value] ELSE sp
    /\ Unmatched(label) => sp2 = sp

\* the row is read as a label and a value: two cells or more, and not a
\* three-cell row of the qualifications section
IsLabelValueRow(section, cells) ==
    Len(cells) >= 2 /\ ~(section.inQualifications /\ Len(cells) = 3)

\* C36: a row labelled exactly "name" sets name only in the personal-data
\* section and establishment only in the clinical-practice section, neither
\* in the qualifications section or before any heading; a row labelled
\* exactly "title" sets title only in personal-data; a row with an unmatched
\* label changes no field.
C36_NameAndTitleBySection ==
    [][(ReadingRow /\ IsLabelValueRow(out.section, RowsHere[out.row + 1])) =>
          NameTitleRule(out.specialist, out'.specialist, ActiveSections(out.section),
                        ToLower(cleanText(RowsHere[out.row + 1][Len(RowsHere[out.row + 1]) - 1])),
                        cleanText(RowsHere[out.row + 1][Len(RowsHere[out.row + 1])]))]_vars

\* the personal-data table gave title and name, the clinical-practice table
\* the establishment; its "Title" row changed nothing
C36_Witness ==
    /\ fn = byStepsFn
    /\ arg.doc.tables = <<tablePersonal, tableClinical>>
    /\ out.table = 2
    /\ out.row = 2
    /\ out.specialist.name = Str("Ali")
    /\ out.specialist.title = Str("Dr")
    /\ out.specialist.establishment = Str("Klinik A")

\* a step that is one of the two fallback passes
FallbackPass == fn = byStepsFn /\ out'.phase \in {"elements", "lists"}

\* the fields of the Record a fallback pass may write
FallbackFields == {"name", "specialty", "address", "state", "stateId", "state_category", "city"}

\* what the claim says of the Record before and after a fallback pass
OnlyFillsEmpty(sp, sp2) ==
    /\ \A f \in {"name", "specialty", "address"} : Truthy(sp[f]) => sp2[f] = sp[f]
    /\ \A f \in DOMAIN sp \ FallbackFields : sp2[f] = sp[f]
    /\ sp2.address = sp.address =>
           \A f \in {"state", "stateId", "state_category", "city"} : sp2[f] = sp[f]

\* C37: the two fallback passes of parseProfilePage, the element lookup and
\* the definition-list scan, never change a name, specialty or address that
\* was not empty before the pass, and write no field other than name,
\* specialty, address and the state, stateId, state_category and city derived
\* from the address.
C37_FallbacksOnlyFill ==
    [][FallbackPass => OnlyFillsEmpty(out.specialist, out'.specialist)]_vars

\* name and address of the table are kept although a name element and two
\* definition lists offer others
C37_Witness ==
    /\ fn = byStepsFn
    /\ out.phase = "lists"
    /\ arg.doc.tables = <<tablePersonal>>
    /\ arg.doc.nameEls # <<>>
    /\ arg.doc.dls # <<>>
    /\ out.specialist.name = Str("Ali")
    /\ out.specialist.address = Str("Ipoh, Perak")
    /\ out.specialist.state = Str("Perak")

\* the texts a document offers as labels: the cells of its table rows and the
\* terms of its definition lists
CellsOf(rows) == UNION {{rows[r][c] : c \in 1..Len(rows[r])} : r \in 1..Len(rows)}

LabelTexts(doc) ==
    UNION {CellsOf(doc.tables[t].rows) : t \in 1..Len(doc.tables)}
    \cup UNION {{doc.dls[d].dt[i] : i \in 1..Len(doc.dls[d].dt)} : d \in 1..Len(doc.dls)}

MentionsAddress(doc) == \E label \in LabelTexts(doc) : Includes(ToLower(label), Str("address"))

RegionUnset(sp) ==
    sp.state = null /\ sp.stateId = 0 /\ sp.state_category = null /\ sp.city = null

RegionIs(sp, stateInfo, city) ==
    /\ sp.state = stateInfo.stateName
    /\ sp.stateId = stateInfo.stateId
    /\ sp.state_category = stateInfo.stateCategory
    /\ sp.city = city

\* the region fields as the address of the Record alone decides them
RegionFromAddress(sp) ==
    IF sp.address = null THEN RegionUnset(sp)
    ELSE RegionIs(sp, extractStateFromAddress(sp.address), extractCityFromAddress(sp.address))

\* C38: at return of parseProfilePage state, stateId, state_category and city
\* are all null when no address row and no address definition was matched, and
\* otherwise equal extractStateFromAddress(address) and
\* extractCityFromAddress(address) of the final address; and the final guard
\* changes no field of the Record.
C38_RegionFromFinalAddress ==
    /\ [](fn = byStepsFn =>
            /\ out.phase = "returned" => RegionFromAddress(out.specialist)
            /\ ~MentionsAddress(arg.doc) => out.specialist.address = null)
    /\ [][(fn = byStepsFn /\ out'.phase = "returned") => out'.specialist = out.specialist]_vars

\* the address of the first table is replaced by the empty one of the second,
\* and the region with it
C38_Witness ==
    /\ fn = byStepsFn
    /\ out.phase = "returned"
    /\ arg.doc.tables = <<tablePersonal, tablePlain>>
    /\ arg.doc.dls = <<>>
    /\ out.specialist.address = <<>>
    /\ out.specialist.state = Str("Missing")
    /\ out.specialist.stateId = MissingStateId
    /\ out.specialist.city = null

\* the address without its runs of five or more digits: a digit goes when the
\* whole run of digits around it is that long
RunStart(s, i) == Least({a \in 1..i : \A k \in a..i : s[k] \in Digits})
RunEnd(s, i) == Least({b \in i..Len(s) : b = Len(s) \/ s[b + 1] \notin Digits})

InLongRun(s, i) == s[i] \in Digits /\ RunEnd(s, i) - RunStart(s, i) + 1 >= 5

WithoutLongRuns(s) == Keeping(s, {i \in 1..Len(s) : ~InLongRun(s, i)})

\* the parts of a text: its longest stretches a..b without comma and newline
\* that hold more than whitespace
IsPart(t, a, b) ==
    /\ \A k \in a..b : t[k] \notin {",", "\n"}
    /\ a = 1 \/ t[a - 1] \in {",", "\n"}
    /\ b = Len(t) \/ t[b + 1] \in {",", "\n"}
    /\ Trim(SubSeq(t, a, b)) # <<>>

PartsIn(t) == {<<a, b>> \in (1..Len(t)) \X (1..Len(t)) : a <= b /\ IsPart(t, a, b)}

\* the part with exactly one part after it
SecondToLast(t, parts) ==
    Trim(SubSeq(t, (CHOOSE p \in parts : Cardinality({q \in parts : q[1] > p[1]}) = 1)[1],
                   (CHOOSE p \in parts : Cardinality({q \in parts : q[1] > p[1]}) = 1)[2]))

CityOfText(t, parts) ==
    IF Cardinality(parts) < 2 THEN null
    ELSE IF RegionsNamed(SecondToLast(t, parts)) # {} THEN null
    ELSE SecondToLast(t, parts)

CityAsStated(address) ==
    IF ~Truthy(address) THEN null
    ELSE CityOfText(WithoutLongRuns(address), PartsIn(WithoutLongRuns(address)))

CityRefused ==
    /\ called
    /\ fn = "extractCityFromAddress"
    /\ arg = Str("Bandar Kuala  Lumpur Baru, Perak")
    /\ out = null

-----------------------------------------------------------------------------
(* exportDatasetToSupabase, batch by batch.  The argument is [items,        *)
(* configured, fetchOk]: the items of the dataset, each [nsrNo, nsr_no],    *)
(* whether url and key are given and whether getData answers.  The state    *)
(* of the run is kept in out: validItems as the positions of the items      *)
(* kept by the filter, the loop variable i, the counters, the batches sent  *)
(* to the batch upsert and the batches sent again item by item, both as     *)
(* ranges <<from, to>> of validItems, and the statistics returned.  The     *)
(* database decides whether a batch upsert fails and which item upserts     *)
(* throw; finalCount, which the database supplies, is left out.             *)

batchSize == 1000

MaxBatches == 2

Item(nsrNo, nsr_no) == [nsrNo |-> nsrNo, nsr_no |-> nsr_no]

itemCamel == Item(idA, null)
itemSnake == Item(null, idA)
itemNoId == Item(null, null)
itemEmptyId == Item(<<>>, <<>>)

\* item.nsrNo || item.nsr_no
NsrNoOf(item) == IF Truthy(item.nsrNo) THEN item.nsrNo ELSE item.nsr_no

\* transformedItems.filter(item => item.nsr_no), as positions of the dataset
ValidItems(items) ==
    SelectSeq([k \in 1..Len(items) |-> k], LAMBDA k : Truthy(NsrNoOf(items[k])))

\* a dataset of n items, the odd one at the positions given
DatasetItems(n, odd, oddItem) == [k \in 1..n |-> IF k \in odd THEN oddItem ELSE itemCamel]

\* sizes around the batch size and at the largest number of full batches
DatasetSizes ==
    {0, 1, 2, batchSize - 1, batchSize, batchSize + 1,
     MaxBatches * batchSize, MaxBatches * batchSize + 1}

\* the odd items of a dataset: none, the first with its id under the other
\* name, the first with empty ids, the one at the end of the first batch
\* without an id, all without an id
OddItems ==
    { <<{}, itemCamel>>, <<{1}, itemSnake>>, <<{1}, itemEmptyId>>, <<{batchSize}, itemNoId>>,
      <<1..(MaxBatches * batchSize + 1), itemNoId>> }

ExportInputs ==
    {[items |-> DatasetItems(n, odd[1] \cap 1..n, odd[2]), configured |-> TRUE, fetchOk |-> TRUE] :
        n \in DatasetSizes, odd \in OddItems}
    \cup {[items |-> DatasetItems(n, {}, itemCamel), configured |-> c, fetchOk |-> f] :
            n \in 0..1, c \in BOOLEAN, f \in BOOLEAN}

Export(validItems, i, updated, failed, batches, retried, errorDetails, phase, stats) ==
    [validItems |-> validItems, i |-> i, updated |-> updated, errors |-> failed,
     batches |-> batches, retried |-> retried, errorDetails |-> errorDetails,
     phase |-> phase, stats |-> stats]

byBatchesFn == "exportDatasetToSupabase, batch by batch"

InitExport ==
    /\ IdlePagination
    /\ variant = "none"
    /\ maxRequestsPerCrawl = 0
    /\ site = "none"
    /\ queue = {}
    /\ running = {}
    /\ handled = {}
    /\ dataset = EmptyBag
    /\ started = 0
    /\ latest = <<>>
    /\ errors = {}
    /\ called = FALSE
    /\ fn = byBatchesFn
    /\ arg \in ExportInputs
    /\ out = Export(<<>>, 0, 0, 0, <<>>, <<>>, 0, "start", <<>>)

\* the statistics of the early return for an empty dataset
EmptyStats == [total |-> 0, inserted |-> 0, updated |-> 0, errors |-> 0]

\* the configuration test, getData, the early return, the transformation and
\* the filter
FetchAndFilter ==
    /\ fn = byBatchesFn
    /\ out.phase = "start"
    /\ out' = IF ~arg.configured \/ ~arg.fetchOk THEN [out EXCEPT !.phase = "threw"]
              ELSE IF Len(arg.items) = 0
              THEN [out EXCEPT !.phase = "returned", !.stats = EmptyStats]
              ELSE [out EXCEPT !.phase = "batches", !.validItems = ValidItems(arg.items)]
    /\ called' = (out'.phase = "returned")
    /\ UNCHANGED <<pgVars, crawlVars, fn, arg>>

\* validItems.slice(i, i + batchSize): the last index of the batch
BatchEnd(validItems, i) ==
    IF i + batchSize < Len(validItems) THEN i + batchSize ELSE Len(validItems)

\* the batch upsert and the count query after it answer
BatchSucceeds ==
    /\ fn = byBatchesFn
    /\ out.phase = "batches"
    /\ out.i < Len(out.validItems)
    /\ out' = [out EXCEPT
                  !.batches = Append(@, <<out.i + 1, BatchEnd(out.validItems, out.i)>>),
                  !.updated = @ + (BatchEnd(out.validItems, out.i) - out.i),
                  !.i = @ + batchSize]
    /\ UNCHANGED <<pgVars, crawlVars, fn, arg, called>>

\* Mutant (C40): an item upsert that answers does not take the item off the
\* error count.
RetryItems_ErrorsKept(counters, batchLength, thrown) ==
    [updated |-> counters.updated + (batchLength - thrown),
     errors |-> counters.errors + batchLength]

\* the counters after the catch block: the whole batch is counted as errors,
\* then every item upsert that does not throw moves one item back
RetryItems(counters, batchLength, thrown) ==
    [updated |-> counters.updated + (batchLength - thrown),
     errors |-> counters.errors + batchLength - (batchLength - thrown)]

\* how many item upserts of a batch throw: none, one, all
ThrowCounts(batchLength) == {0, 1, batchLength}

\* the batch upsert reports an error or throws, or the count query after it
\* throws: the catch block sends the items of the batch one by one
BatchFails ==
    /\ fn = byBatchesFn
    /\ out.phase = "batches"
    /\ out.i < Len(out.validItems)
    /\ \E thrown \in ThrowCounts(BatchEnd(out.validItems, out.i) - out.i) :
          out' = [out EXCEPT
                     !.batches = Append(@, <<out.i + 1, BatchEnd(out.validItems, out.i)>>),
                     !.retried = Append(@, <<out.i + 1, BatchEnd(out.validItems, out.i)>>),
                     !.errorDetails = @ + 1,
                     !.updated = RetryItems(out, BatchEnd(out.validItems, out.i) - out.i, thrown).updated,
                     !.errors = RetryItems(out, BatchEnd(out.validItems, out.i) - out.i, thrown).errors,
                     !.i = @ + batchSize]
    /\ UNCHANGED <<pgVars, crawlVars, fn, arg, called>>

\* the final count query and the statistics; a query that throws ends the
\* call without a return value, and its counters are lost with it
FinalCount ==
    /\ fn = byBatchesFn
    /\ out.phase = "batches"
    /\ out.i >= Len(out.validItems)
    /\ \E answered \in BOOLEAN :
          out' = IF answered
                 THEN [out EXCEPT !.phase = "returned",
                                  !.stats = [total |-> Len(arg.items),
                                             valid |-> Len(out.validItems), inserted |-> 0,
                                             updated |-> out.updated, errors |-> out.errors]]
                 ELSE [out EXCEPT !.phase = "threw", !.i = 0, !.updated = 0, !.errors = 0,
                                  !.errorDetails = 0]
    /\ called' = (out'.phase = "returned")
    /\ UNCHANGED <<pgVars, crawlVars, fn, arg>>

NextExport ==
    \/ FetchAndFilter
    \/ BatchSucceeds
    \/ BatchFails
    \/ FinalCount

SpecExport == InitExport /\ [][NextExport]_vars

\* the positions of the dataset whose item has an id, under either name
WithId(items) ==
    {p \in 1..Len(items) : Truthy(items[p].nsrNo) \/ Truthy(items[p].nsr_no)}

\* the positions of the dataset a range of validItems stands for
PositionsOf(validItems, range) == {validItems[k] : k \in range[1]..range[2]}

\* the sets of positions a list of ranges stands for, and all of them together
SentSets(validItems, ranges) ==
    [j \in 1..Len(ranges) |-> PositionsOf(validItems, ranges[j])]

AllOf(sets) == UNION {sets[j] : j \in DOMAIN sets}

RECURSIVE SizesAdded(_, _)
SizesAdded(sets, j) == IF j = 0 THEN 0 ELSE Cardinality(sets[j]) + SizesAdded(sets, j - 1)

\* what the claim says of a run in the state o: withId the positions of the
\* items with an id, sent the batches and all the positions in any of them.
\* No position is in two batches when the sizes of the batches add up to the
\* number of positions sent.
BatchesOf(o, withId, sent, all) ==
    /\ \A j \in DOMAIN sent : Cardinality(sent[j]) \in 1..1000
    /\ SizesAdded(sent, Len(sent)) = Cardinality(all)
    /\ all \subseteq withId
    /\ \A j \in 1..Len(o.retried) : \E k \in 1..Len(o.batches) : o.retried[j] = o.batches[k]
    /\ o.phase = "returned" =>
          /\ all = withId
          /\ o.stats.updated + o.stats.errors = Cardinality(withId)
          /\ "valid" \in DOMAIN o.stats => o.stats.valid = Cardinality(withId)

BatchesAsStated(o, withId, sent) == BatchesOf(o, withId, sent, AllOf(sent))

\* C40: in every run of exportDatasetToSupabase, whatever batch and item
\* upserts fail, each item with an id is sent in exactly one batch of at most
\* 1000 items, an item without an id is never sent to upsert, in a batch or
\* alone, and at return updated + errors is the number of items with an id,
\* which is stats.valid.
C40_BatchesAndCounters ==
    fn = byBatchesFn =>
        BatchesAsStated(out, WithId(arg.items), SentSets(out.validItems, out.batches))

\* 2001 items, the 1000th without an id: two full batches, one of them sent
\* again item by item with one item upsert throwing
C40_Witness ==
    /\ fn = byBatchesFn
    /\ out.phase = "returned"
    /\ Len(arg.items) = 2 * batchSize + 1
    /\ arg.items[batchSize] = itemNoId
    /\ out.batches = << <<1, batchSize>>, <<batchSize + 1, 2 * batchSize>> >>
    /\ Len(out.retried) = 1
    /\ out.stats.valid = 2 * batchSize
    /\ out.stats.updated = 2 * batchSize - 1
    /\ out.stats.errors = 1

=============================================================================
